---- MODULE Spec2Model ----
(***************************************************************************)
(* Model of the vendor-data pipeline: the SQLite metadata store, the      *)
(* ingestion / normalization / validation orchestrators, the batch runner *)
(* and the field mapper.                                                   *)
(*                                                                         *)
(* The specifications share the variables:                                 *)
(*   Spec          - batch runs (BatchRunner.process_batch) on the store   *)
(*   SpecUnit      - direct calls of FieldMapper.map_row and of            *)
(*                   ValidationPipeline.validate_row / validate_batch      *)
(*   SpecReconcile - direct calls of the Reconciler                        *)
(*   SpecSuggest   - direct calls of FieldMapper.suggest_mapping           *)
(*   SpecStore     - direct calls of MetadataStore.insert_row/insert_file  *)
(*                   and of CLI.approve_rows / reject_rows                 *)
(*   SpecReview    - process_batch runs with reviewed rows written to the  *)
(*                   store by another process                              *)
(*   SpecSession   - rows mapped and validated one after the other by the  *)
(*                   same FieldMapper / ValidationPipeline instances       *)
(***************************************************************************)
EXTENDS Integers, Sequences, FiniteSets, TLC

VARIABLES
    files,      \* store: the files table, in rowid order
    rows,       \* store: the rows table, in rowid order
    writes,     \* number of write statements the store executed in the current run
    pc,         \* position of the batch runner
    runs,       \* number of process_batch calls started
    cfgName,    \* config_name argument of the current run
    queue,      \* discovered files not yet processed
    cur,        \* file being processed: path, file_meta object, generator state
    chunk,      \* the row chunk last yielded by the row iterator
    result,     \* the BatchResult of the current run
    bound,      \* TRUE once the locals valid / flagged of process_batch are bound
    faults,     \* store write failures still to be injected
    batches,    \* store: the batches table, in rowid order
    hist,       \* history of the current run (what happened, for the properties)
    consumed,   \* history: file_id -> row_ids stored when its iterator first ran out
    unit        \* SpecUnit: the object under test and the last call made on it

vars == <<files, rows, writes, pc, runs, cfgName, queue, cur, chunk, result,
          bound, faults, batches, hist, consumed, unit>>

(***************************************************************************)
(* Bounds                                                                  *)
(***************************************************************************)
MaxFiles == 2       \* files in one input directory listing
MaxRuns == 2        \* process_batch calls
MaxFaults == 1      \* injected store write failures
MaxRules == 2       \* SpecUnit: mapping rules given to one FieldMapper
MaxBatch == 2       \* SpecUnit: rows given to one validate_batch call
MaxCalls == 1       \* SpecUnit: calls made one after the other
MaxDedup == 3       \* SpecReconcile: rows given to one mark_duplicates call
MaxSession == 2     \* SpecSession: rows put through the same instances
MaxStoreOps == 3    \* SpecStore: store and CLI calls made one after the other
MaxReviews == 1     \* SpecReview: reviewed rows written to the store
MaxName == 2        \* SpecSuggest: characters of a field name

(***************************************************************************)
(* Python values: None and str (a sequence of one-character strings)       *)
(***************************************************************************)
None == [t |-> "none", s |-> <<>>]

Str(chars) == [t |-> "str", s |-> chars]

IsStr(v) == v.t = "str"

Whitespace == {" "}

RECURSIVE lstrip(_)
lstrip(s) == IF s # <<>> /\ Head(s) \in Whitespace THEN lstrip(Tail(s)) ELSE s

RECURSIVE rstrip(_)
rstrip(s) ==
    IF s # <<>> /\ s[Len(s)] \in Whitespace THEN rstrip(SubSeq(s, 1, Len(s) - 1)) ELSE s

strip(s) == rstrip(lstrip(s))

\* Python's "x in s" for strings: s contains x as a contiguous substring
Contains(s, x) ==
    \E i \in 1..(Len(s) - Len(x) + 1) : SubSeq(s, i, i + Len(x) - 1) = x

EmptyDict == [k \in {} |-> None]

(***************************************************************************)
(* Enumerations                                                            *)
(***************************************************************************)
RowStatus == {"valid", "flagged", "error", "pending"}

FileStatus == {"pending", "processing", "partial_success", "success", "failed"}

NoMessage == "<none>"

(***************************************************************************)
(* Metadata store                                                          *)
(***************************************************************************)
RECURSIVE SelectSeqBy(_, _)
\* the records of table whose index is in keep, in table order
SelectSeqBy(table, keep) ==
    IF table = <<>> THEN <<>>
    ELSE LET rest == SelectSeqBy(Tail(table), {i - 1 : i \in keep \ {1}})
         IN  IF 1 \in keep THEN <<Head(table)>> \o rest ELSE rest

\* a plain INSERT that keeps the record already stored under the key
insert_file_append(table, file_meta) == Append(table, file_meta)

\* INSERT OR REPLACE INTO files: the record with the same primary key is
\* deleted and the new record gets a fresh, largest rowid
insert_file(table, file_meta) ==
    SelectSeqBy(table, {i \in 1..Len(table) : table[i].file_id # file_meta.file_id})
        \o <<file_meta>>

NoFile == [file_id |-> "<nofile>"]

\* SELECT * FROM files WHERE file_id = ?  (fetchone)
get_file(table, file_id) ==
    IF \E i \in 1..Len(table) : table[i].file_id = file_id
    THEN table[CHOOSE i \in 1..Len(table) : table[i].file_id = file_id]
    ELSE NoFile

\* INSERT OR REPLACE INTO rows; created_at is the time of this insert, which
\* the position in the table stands for
insert_row(table, row) ==
    SelectSeqBy(table, {i \in 1..Len(table) : table[i].row_id # row.row_id})
        \o <<row>>

NoRow == [row_id |-> "<norow>"]

\* SELECT * FROM rows WHERE row_id = ?  (fetchone)
get_row(table, row_id) ==
    IF \E i \in 1..Len(table) : table[i].row_id = row_id
    THEN table[CHOOSE i \in 1..Len(table) : table[i].row_id = row_id]
    ELSE NoRow

RECURSIVE insert_rows(_, _)
\* insert_row for every row of a list, in list order
insert_rows(table, list) ==
    IF list = <<>> THEN table
    ELSE insert_rows(insert_row(table, Head(list)), Tail(list))

RECURSIVE SortByLine(_)
\* ORDER BY line_number
SortByLine(list) ==
    IF list = <<>> THEN <<>>
    ELSE LET m == CHOOSE i \in 1..Len(list) :
                      \A j \in 1..Len(list) :
                          \/ list[i].line_number < list[j].line_number
                          \/ (list[i].line_number = list[j].line_number /\ i <= j)
         IN  <<list[m]>> \o SortByLine(SelectSeqBy(list, (1..Len(list)) \ {m}))

\* SELECT * FROM rows WHERE file_id = ? ORDER BY line_number
get_rows_by_file(table, file_id) ==
    SortByLine(SelectSeqBy(table, {i \in 1..Len(table) : table[i].file_id = file_id}))

\* list[::-1]
Reverse(list) == [i \in 1..Len(list) |-> list[Len(list) + 1 - i]]

\* SELECT * FROM rows WHERE status = ? ORDER BY created_at DESC [LIMIT n]:
\* the latest insert first; limit 0 stands for None
get_rows_by_status(table, status, limit) ==
    LET found == Reverse(SelectSeqBy(table, {i \in 1..Len(table) :
                                                table[i].status = status}))
    IN  IF limit = 0 \/ limit >= Len(found) THEN found ELSE SubSeq(found, 1, limit)

\* SELECT * FROM files WHERE status = ?  (no ORDER BY: a scan in rowid order)
get_files_by_status(table, status) ==
    SelectSeqBy(table, {i \in 1..Len(table) : table[i].status = status})

\* the methods class MetadataStore defines
MetadataStoreMethods ==
    {"__init__", "_get_connection", "_init_db", "insert_file", "get_file",
     "file_exists", "get_files_by_status", "_row_to_file_meta", "insert_row",
     "get_row", "get_rows_by_file", "get_rows_by_status", "_db_row_to_row",
     "insert_batch", "update_batch", "get_batch"}

(***************************************************************************)
(* CLI                                                                     *)
(***************************************************************************)
\* the loop of CLI.approve_rows / reject_rows over row_ids: the first pass
\* evaluates self.metadata_store.set_reviewer_decision, which raises
\* AttributeError when MetadataStore has no such method; nothing is written
record_decisions(table, row_ids, decision, reviewer_id) ==
    IF row_ids = <<>> THEN [raised |-> FALSE, table |-> table]
    ELSE [raised |-> "set_reviewer_decision" \notin MetadataStoreMethods,
          table |-> table]

\* CLI.approve_rows(row_ids, reviewer_id)
approve_rows(table, row_ids, reviewer_id) ==
    record_decisions(table, row_ids, "approved", reviewer_id)

\* CLI.reject_rows(row_ids, reviewer_id)
reject_rows(table, row_ids, reviewer_id) ==
    record_decisions(table, row_ids, "rejected", reviewer_id)

(***************************************************************************)
(* Normalizer                                                              *)
(***************************************************************************)
\* Normalizer.normalize_row: strings are trimmed, blank strings become None
normalize_row(raw_row) ==
    [key \in DOMAIN raw_row |->
        LET value == raw_row[key]
        IN  IF value = None THEN None
            ELSE IF IsStr(value)
                 THEN (IF strip(value.s) # <<>> THEN Str(strip(value.s)) ELSE None)
                 ELSE value]

(***************************************************************************)
(* Field mapper                                                            *)
(***************************************************************************)
\* models.MappingRule; confidence is held in hundredths
MappingRule(vendor_field, canonical_field, rule_type, pattern, priority, fallback, confidence) ==
    [vendor_field |-> vendor_field, canonical_field |-> canonical_field,
     rule_type |-> rule_type, pattern |-> pattern, priority |-> priority,
     fallback |-> fallback, confidence |-> confidence]

RECURSIVE InsertByPriority(_, _)
InsertByPriority(sorted, rule) ==
    IF sorted = <<>> THEN <<rule>>
    ELSE IF rule.priority < Head(sorted).priority THEN <<rule>> \o sorted
         ELSE <<Head(sorted)>> \o InsertByPriority(Tail(sorted), rule)

RECURSIVE SortByPriority(_)
\* FieldMapper.__init__: sorted(mapping_rules, key=priority), a stable sort
SortByPriority(rules) ==
    IF rules = <<>> THEN <<>>
    ELSE InsertByPriority(SortByPriority(SubSeq(rules, 1, Len(rules) - 1)),
                          rules[Len(rules)])

\* d[key] = value on a dict
DictSet(d, key, value) ==
    [k \in DOMAIN d \cup {key} |-> IF k = key THEN value ELSE d[k]]

\* whether the rule applies to the value (the "if" of each rule_type branch);
\* regex patterns are literals, for which re.search is containment
RuleMatches(rule, value) ==
    CASE rule.rule_type = "exact" -> TRUE
      [] rule.rule_type = "regex" -> IsStr(value) /\ Contains(value.s, rule.pattern)
      [] rule.rule_type = "substring" -> IsStr(value) /\ Contains(value.s, rule.pattern)
      [] rule.rule_type = "function" -> FALSE

\* one iteration of the loop over self.mapping_rules in map_row
MapStep(acc, rule, source_data) ==
    IF rule.vendor_field \notin DOMAIN source_data THEN acc
    ELSE IF RuleMatches(rule, source_data[rule.vendor_field])
         THEN [mapped |-> DictSet(acc.mapped, rule.canonical_field,
                                  source_data[rule.vendor_field]),
               confidence |-> DictSet(acc.confidence, rule.canonical_field,
                                      rule.confidence),
               used |-> acc.used \cup {rule.vendor_field}]
         ELSE acc

RECURSIVE MapLoop(_, _, _)
MapLoop(acc, rules, source_data) ==
    IF rules = <<>> THEN acc
    ELSE MapLoop(MapStep(acc, Head(rules), source_data), Tail(rules), source_data)

\* FieldMapper.map_row on a mapper built from mapping_rules; the result holds
\* the mapped dict, the confidence dict and the vendor fields used
map_row(mapping_rules, row) ==
    LET source_data == IF row.normalized_data # EmptyDict
                       THEN row.normalized_data ELSE row.raw_data
    IN  MapLoop([mapped |-> EmptyDict, confidence |-> EmptyDict, used |-> {}],
                SortByPriority(mapping_rules), source_data)

\* FieldMapper.__init__: the instance, with its rules sorted and its
\* unmapped_fields set empty
FieldMapper(mapping_rules) ==
    [mapping_rules |-> SortByPriority(mapping_rules), unmapped_fields |-> {}]

\* MapStep on a mapper that passes over the vendor fields it has recorded
\* as unmapped
MapStepOn_skip_unmapped(self, acc, rule, source_data) ==
    IF rule.vendor_field \in self.unmapped_fields THEN acc
    ELSE MapStep(acc, rule, source_data)

\* one iteration of the loop of map_row on the instance self
MapStepOn(self, acc, rule, source_data) == MapStep(acc, rule, source_data)

RECURSIVE MapLoopOn(_, _, _, _)
MapLoopOn(self, acc, rules, source_data) ==
    IF rules = <<>> THEN acc
    ELSE MapLoopOn(self, MapStepOn(self, acc, Head(rules), source_data), Tail(rules),
                   source_data)

\* FieldMapper.map_row on the instance self: the mapped dict, the confidence
\* dict, and the instance afterwards (the source fields no rule used are
\* added to unmapped_fields)
FieldMapper_map_row(self, row) ==
    LET source_data == IF row.normalized_data # EmptyDict
                       THEN row.normalized_data ELSE row.raw_data
        out == MapLoopOn(self, [mapped |-> EmptyDict, confidence |-> EmptyDict,
                                used |-> {}],
                         self.mapping_rules, source_data)
    IN  [mapped |-> out.mapped, confidence |-> out.confidence,
         self |-> [self EXCEPT !.unmapped_fields =
                                   @ \cup (DOMAIN source_data \ out.used)]]

(***************************************************************************)
(* Validation: structural layer (validator.py)                             *)
(***************************************************************************)
\* a ValidationRule object; min_length / max_length are used by "length" only
ValidationRule(field, rule_type, min_length, max_length) ==
    [kind |-> "ValidationRule", field |-> field, rule_type |-> rule_type,
     min_length |-> min_length, max_length |-> max_length,
     message |-> field \o " failed " \o rule_type]

\* _required: TRUE when the value passes
_required(value) ==
    ~ (value = None \/ (IsStr(value) /\ strip(value.s) = <<>>))

\* _length_check: TRUE when the value passes
_length_check(value, rule) ==
    LET val_str == IF value # None THEN value.s ELSE <<>>
    IN  ~ (Len(val_str) < rule.min_length \/ Len(val_str) > rule.max_length)

\* ValidationRule.validate: is_valid
RuleIsValid(rule, value) ==
    CASE rule.rule_type = "required" -> _required(value)
      [] rule.rule_type = "length" -> _length_check(value, rule)

RECURSIVE RowValidatorLoop(_, _, _)
\* the loop of RowValidator.validate; an item of the rule list that is a plain
\* dict has no attribute "field", and reading it raises AttributeError
RowValidatorLoop(rules, canonical_data, errors) ==
    IF rules = <<>> THEN [raised |-> FALSE, errors |-> errors]
    ELSE LET rule == Head(rules)
         IN  IF rule.kind # "ValidationRule"
             THEN [raised |-> TRUE, errors |-> <<>>]
             ELSE IF rule.field \notin DOMAIN canonical_data
                  THEN RowValidatorLoop(Tail(rules), canonical_data, errors)
                  ELSE IF RuleIsValid(rule, canonical_data[rule.field])
                       THEN RowValidatorLoop(Tail(rules), canonical_data, errors)
                       ELSE RowValidatorLoop(Tail(rules), canonical_data,
                                Append(errors, [field |-> rule.field,
                                                rule |-> rule.rule_type,
                                                message |-> rule.message]))

\* RowValidator.validate
RowValidator_validate(rules, canonical_data) ==
    RowValidatorLoop(rules, canonical_data, <<>>)

(***************************************************************************)
(* Validation: cross-field layer (cross_field_validator.py)                *)
(***************************************************************************)
\* canonical_data.get(field)
DictGet(d, key) == IF key \in DOMAIN d THEN d[key] ELSE None

\* Python truthiness of a value: None and '' are falsy
Truthy(value) == value # None /\ ~ (IsStr(value) /\ value.s = <<>>)

RECURSIVE JoinNames(_)
\* ','.join(names)
JoinNames(names) ==
    IF names = <<>> THEN ""
    ELSE IF Len(names) = 1 THEN names[1]
         ELSE names[1] \o "," \o JoinNames(Tail(names))

\* a CrossFieldRule object of rule_type "dependency"
DependencyRule(condition_field, condition_value, required_field) ==
    [kind |-> "CrossFieldRule", rule_type |-> "dependency",
     fields |-> <<condition_field, required_field>>,
     condition_field |-> condition_field, condition_value |-> condition_value,
     required_field |-> required_field, message |-> "Cross-field rule failed"]

\* a CrossFieldRule object of rule_type "mutual_exclusion"
MutualExclusionRule(fields) ==
    [kind |-> "CrossFieldRule", rule_type |-> "mutual_exclusion", fields |-> fields,
     message |-> "Cross-field rule failed"]

\* CrossFieldRule._validate_dependency: the error dict, or <<>> for None
_validate_dependency(rule, canonical_data) ==
    IF DictGet(canonical_data, rule.condition_field) = rule.condition_value
       /\ ~ Truthy(DictGet(canonical_data, rule.required_field))
    THEN <<[fields |-> rule.condition_field \o "," \o rule.required_field,
            rule |-> "dependency", message |-> rule.message]>>
    ELSE <<>>

\* CrossFieldRule._validate_mutual_exclusion: the error dict, or <<>> for None
_validate_mutual_exclusion(rule, canonical_data) ==
    LET set_fields == {i \in 1..Len(rule.fields) :
                           Truthy(DictGet(canonical_data, rule.fields[i]))}
    IN  IF Cardinality(set_fields) > 1
        THEN <<[fields |-> JoinNames(rule.fields), rule |-> "mutual_exclusion",
                message |-> rule.message]>>
        ELSE <<>>

\* a Python float: the rational n / d. The values used are multiples of
\* 1/4, which binary floating point holds exactly, so that the arithmetic
\* on the rationals is the arithmetic of the floats
Num(n, d) == [t |-> "num", n |-> n, d |-> d]

IsNum(v) == v.t = "num"

Digits == {"0", "1", "2", "3", "4", "5", "6", "7", "8", "9"}

\* int(c) for a digit character
DigitVal(c) ==
    CASE c = "0" -> 0 [] c = "1" -> 1 [] c = "2" -> 2 [] c = "3" -> 3 [] c = "4" -> 4
      [] c = "5" -> 5 [] c = "6" -> 6 [] c = "7" -> 7 [] c = "8" -> 8 [] c = "9" -> 9

\* the text is a decimal literal float() accepts: digits with at most one
\* point and at least one digit (signs and exponents are not in the data)
IsDecimal(chars) ==
    /\ \A i \in 1..Len(chars) : chars[i] \in Digits \cup {"."}
    /\ Cardinality({i \in 1..Len(chars) : chars[i] = "."}) <= 1
    /\ \E i \in 1..Len(chars) : chars[i] \in Digits

RECURSIVE ParseDecimal(_, _, _, _)
\* the value of a decimal literal, read left to right: n the digits read so
\* far as an integer, d the power of ten of the digits read after the point
ParseDecimal(chars, n, d, seenPoint) ==
    IF chars = <<>> THEN Num(n, d)
    ELSE IF Head(chars) = "." THEN ParseDecimal(Tail(chars), n, d, TRUE)
         ELSE ParseDecimal(Tail(chars), 10 * n + DigitVal(Head(chars)),
                           IF seenPoint THEN 10 * d ELSE d, seenPoint)

\* float(val) leaving strings unconverted
ToFloat_keep(value) == value

\* field_values[field] = float(val), or val itself when float raises
\* ValueError / TypeError; float ignores surrounding whitespace
ToFloat(value) ==
    IF IsNum(value) THEN value
    ELSE IF IsStr(value) /\ IsDecimal(strip(value.s))
         THEN ParseDecimal(strip(value.s), 0, 1, FALSE)
         ELSE value

\* the expression text "a * b == c" over three names
ProductEquals(a, b, c) == [a |-> a, b |-> b, c |-> c]

\* a CrossFieldRule object of rule_type "formula"
FormulaRule(fields, formula) ==
    [kind |-> "CrossFieldRule", rule_type |-> "formula", fields |-> fields,
     formula |-> formula, message |-> "Cross-field rule failed"]

\* the field_values dict _validate_formula builds: the rule's fields whose
\* value in the row is not None
FieldValues(rule, canonical_data) ==
    LET names == {rule.fields[i] : i \in 1..Len(rule.fields)}
        present == {f \in names : DictGet(canonical_data, f) # None}
    IN  [f \in present |-> ToFloat(canonical_data[f])]

\* eval(formula, {"__builtins__": {}}, field_values): a name that is not in
\* field_values raises NameError, a str operand of * raises TypeError, and
\* a float never equals a str
Eval(formula, field_values) ==
    IF {formula.a, formula.b, formula.c} \subseteq DOMAIN field_values
    THEN LET a == field_values[formula.a]
             b == field_values[formula.b]
             c == field_values[formula.c]
         IN  IF IsNum(a) /\ IsNum(b)
             THEN [raised |-> FALSE,
                   result |-> IsNum(c) /\ a.n * b.n * c.d = c.n * a.d * b.d]
             ELSE [raised |-> TRUE, result |-> FALSE]
    ELSE [raised |-> TRUE, result |-> FALSE]

\* CrossFieldRule._validate_formula: the error dict, or <<>> for None; an
\* exception of the evaluation is logged and None is returned
_validate_formula(rule, canonical_data) ==
    LET value == Eval(rule.formula, FieldValues(rule, canonical_data))
    IN  IF value.raised THEN <<>>
        ELSE IF ~ value.result
             THEN <<[fields |-> JoinNames(rule.fields), rule |-> "formula",
                     message |-> rule.message]>>
             ELSE <<>>

\* CrossFieldRule.validate
CrossFieldRule_validate(rule, canonical_data) ==
    CASE rule.rule_type = "formula" -> _validate_formula(rule, canonical_data)
      [] rule.rule_type = "dependency" -> _validate_dependency(rule, canonical_data)
      [] rule.rule_type = "mutual_exclusion" ->
            _validate_mutual_exclusion(rule, canonical_data)
      [] OTHER -> <<>>

RECURSIVE CrossFieldValidator_validate(_, _)
\* CrossFieldValidator.validate
CrossFieldValidator_validate(rules, canonical_data) ==
    IF rules = <<>> THEN <<>>
    ELSE CrossFieldRule_validate(Head(rules), canonical_data)
            \o CrossFieldValidator_validate(Tail(rules), canonical_data)

(***************************************************************************)
(* Validation: semantic layer (semantic_validator.py)                      *)
(***************************************************************************)
\* a SemanticRule object of rule_type "status_transition"
StatusTransitionRule(allowed_from) ==
    [kind |-> "SemanticRule", rule_type |-> "status_transition",
     allowed_from |-> allowed_from, message |-> "Semantic validation failed"]

\* a SemanticRule object of rule_type "inventory"
InventoryRule ==
    [kind |-> "SemanticRule", rule_type |-> "inventory",
     message |-> "Semantic validation failed"]

\* SemanticRule._validate_status_transition
_validate_status_transition(rule, canonical_data) ==
    IF DictGet(canonical_data, "order_status") \notin rule.allowed_from
    THEN <<[field |-> "order_status", rule |-> "status_transition",
            message |-> rule.message]>>
    ELSE <<>>

\* SemanticRule.validate
SemanticRule_validate(rule, canonical_data) ==
    CASE rule.rule_type = "status_transition" ->
            _validate_status_transition(rule, canonical_data)
      [] rule.rule_type = "inventory" -> <<>>
      [] OTHER -> <<>>

RECURSIVE SemanticValidator_validate(_, _)
\* SemanticValidator.validate
SemanticValidator_validate(rules, canonical_data) ==
    IF rules = <<>> THEN <<>>
    ELSE SemanticRule_validate(Head(rules), canonical_data)
            \o SemanticValidator_validate(Tail(rules), canonical_data)

(***************************************************************************)
(* ValidationPipeline                                                      *)
(***************************************************************************)
\* ValidationPipeline.__init__: the three validators of a pipeline
ValidationPipeline(validation_rules, cross_field_rules, semantic_rules) ==
    [row_validator |-> validation_rules, cross_validator |-> cross_field_rules,
     semantic_validator |-> semantic_rules]

\* the status validate_row gives a row with this error list
StatusOf(errors) == IF errors = <<>> THEN "valid" ELSE "flagged"

\* validate_row without its semantic layer
validate_row_two_layers(pipeline, row) ==
    LET field_errors == RowValidator_validate(pipeline.row_validator, row.canonical_data)
        cross_errors == CrossFieldValidator_validate(pipeline.cross_validator,
                                                     row.canonical_data)
        errors == field_errors.errors \o cross_errors
    IN  [raised |-> field_errors.raised,
         row |-> [row EXCEPT !.validation_errors = errors, !.status = StatusOf(errors)]]

\* validate_row stopping at the first layer that reports a violation
validate_row_short_circuit(pipeline, row) ==
    LET field_errors == RowValidator_validate(pipeline.row_validator, row.canonical_data)
        cross_errors == CrossFieldValidator_validate(pipeline.cross_validator,
                                                     row.canonical_data)
        semantic_errors == SemanticValidator_validate(pipeline.semantic_validator,
                                                      row.canonical_data)
        errors == IF field_errors.errors # <<>> THEN field_errors.errors
                  ELSE IF cross_errors # <<>> THEN cross_errors
                  ELSE semantic_errors
    IN  [raised |-> field_errors.raised,
         row |-> [row EXCEPT !.validation_errors = errors, !.status = StatusOf(errors)]]

\* ValidationPipeline.validate_row: the row returned, or raised when the
\* structural layer raises (the row is then left as it was)
validate_row(pipeline, row) ==
    LET field_errors == RowValidator_validate(pipeline.row_validator, row.canonical_data)
        cross_errors == CrossFieldValidator_validate(pipeline.cross_validator,
                                                     row.canonical_data)
        semantic_errors == SemanticValidator_validate(pipeline.semantic_validator,
                                                      row.canonical_data)
        errors == field_errors.errors \o cross_errors \o semantic_errors
    IN  IF field_errors.raised THEN [raised |-> TRUE, row |-> row]
        ELSE [raised |-> FALSE,
              row |-> [row EXCEPT !.validation_errors = errors,
                                  !.status = StatusOf(errors)]]

(***************************************************************************)
(* Reconciler (reconciler.py)                                              *)
(***************************************************************************)
\* str.lower on one character
Lower(c) == CASE c = "A" -> "a" [] c = "B" -> "b" [] c = "X" -> "x" [] OTHER -> c

\* str(value).lower().strip()
LowerStrip(chars) == strip([i \in 1..Len(chars) |-> Lower(chars[i])])

RECURSIVE Join(_, _)
\* sep.join(parts) on strings held as character sequences
Join(sep, parts) ==
    IF parts = <<>> THEN <<>>
    ELSE IF Len(parts) = 1 THEN parts[1]
         ELSE parts[1] \o <<sep>> \o Join(sep, Tail(parts))

RECURSIVE KeyParts(_, _)
\* the key_parts list of generate_dedup_key: a field that is absent
\* contributes '', a field that is None contributes nothing
KeyParts(data, key_fields) ==
    IF key_fields = <<>> THEN <<>>
    ELSE LET value == IF Head(key_fields) \in DOMAIN data
                      THEN data[Head(key_fields)] ELSE Str(<<>>)
             rest == KeyParts(data, Tail(key_fields))
         IN  IF value # None THEN <<LowerStrip(value.s)>> \o rest ELSE rest

\* hashlib.md5(key_string.encode()).hexdigest(), taken to be injective
md5(key_string) == <<"md5", key_string>>

\* Reconciler.generate_dedup_key
generate_dedup_key(row, key_fields) ==
    LET canonical_data == IF row.canonical_data # EmptyDict
                          THEN row.canonical_data ELSE row.raw_data
    IN  md5(Join("|", KeyParts(canonical_data, key_fields)))

\* Reconciler.find_duplicates: for a position of the list, the positions
\* (in list order) of the rows with the same key; the dict keeps the key's
\* group only when it has more than one member
GroupOf(list, key_fields, i) ==
    {j \in 1..Len(list) :
        generate_dedup_key(list[j], key_fields) = generate_dedup_key(list[i], key_fields)}

\* indices[0] of a group, as a position of the list
FirstOf(group) == CHOOSE j \in group : \A k \in group : j <= k

\* the error dict mark_duplicates appends; Python list indices start at 0
DuplicateError(first) ==
    [field |-> "_deduplicate", rule |-> "duplicate",
     message |-> "Duplicate of row " \o ToString(first - 1)]

\* mark_duplicates marking every member of a group, the first included
mark_duplicates_all(list, key_fields, keep_first) ==
    [i \in 1..Len(list) |->
        LET group == GroupOf(list, key_fields, i)
        IN  IF Cardinality(group) > 1
            THEN [list[i] EXCEPT !.validation_errors =
                                     Append(@, DuplicateError(FirstOf(group)))]
            ELSE list[i]]

\* mark_duplicates replacing the violations of a duplicate and flagging it
mark_duplicates_replace(list, key_fields, keep_first) ==
    [i \in 1..Len(list) |->
        LET group == GroupOf(list, key_fields, i)
        IN  IF Cardinality(group) > 1 /\ (~ keep_first \/ i # FirstOf(group))
            THEN [list[i] EXCEPT !.validation_errors = <<DuplicateError(FirstOf(group))>>,
                                 !.status = "flagged"]
            ELSE list[i]]

\* Reconciler.mark_duplicates: the rows after the call
mark_duplicates(list, key_fields, keep_first) ==
    [i \in 1..Len(list) |->
        LET group == GroupOf(list, key_fields, i)
        IN  IF Cardinality(group) > 1 /\ (~ keep_first \/ i # FirstOf(group))
            THEN [list[i] EXCEPT !.validation_errors =
                                     Append(@, DuplicateError(FirstOf(group)))]
            ELSE list[i]]

(***************************************************************************)
(* Field mapper: suggestions (mapper.py)                                   *)
(***************************************************************************)
\* a > b on scores, held as fractions n / d
ScoreGreater(a, b) == a.n * b.d > b.n * a.d

\* FieldMapper._string_similarity: common characters over the longer length
_string_similarity(s1, s2) ==
    IF s1 = <<>> \/ s2 = <<>> THEN [n |-> 0, d |-> 1]
    ELSE [n |-> Cardinality({s1[i] : i \in 1..Len(s1)} \cap {s2[i] : i \in 1..Len(s2)}),
          d |-> IF Len(s1) > Len(s2) THEN Len(s1) ELSE Len(s2)]

\* one pass of the loop of suggest_mapping: the suggestion appended for the
\* candidate, if any, with the branch that scored it
Suggestion(vendor_field, canonical) ==
    LET vendor_lower == [i \in 1..Len(vendor_field) |-> Lower(vendor_field[i])]
        canonical_lower == [i \in 1..Len(canonical) |-> Lower(canonical[i])]
        score == _string_similarity(vendor_lower, canonical_lower)
    IN  IF vendor_lower = canonical_lower
        THEN <<[field |-> canonical, score |-> [n |-> 99, d |-> 100], by |-> "exact"]>>
        ELSE IF Contains(vendor_lower, canonical_lower)
                \/ Contains(canonical_lower, vendor_lower)
        THEN <<[field |-> canonical, score |-> [n |-> 7, d |-> 10], by |-> "substring"]>>
        ELSE IF ScoreGreater(score, [n |-> 1, d |-> 2])
        THEN <<[field |-> canonical, score |-> score, by |-> "overlap"]>>
        ELSE <<>>

RECURSIVE Suggestions(_, _)
\* the suggestions list before it is sorted
Suggestions(vendor_field, canonical_fields) ==
    IF canonical_fields = <<>> THEN <<>>
    ELSE Suggestion(vendor_field, Head(canonical_fields))
            \o Suggestions(vendor_field, Tail(canonical_fields))

RECURSIVE SortByScore(_)
\* sorted(suggestions, key=lambda x: x[1], reverse=True): stable
SortByScore(list) ==
    IF list = <<>> THEN <<>>
    ELSE LET m == CHOOSE i \in 1..Len(list) :
                      \A j \in 1..Len(list) :
                          \/ ScoreGreater(list[i].score, list[j].score)
                          \/ (~ ScoreGreater(list[j].score, list[i].score) /\ i <= j)
         IN  <<list[m]>> \o SortByScore(SelectSeqBy(list, (1..Len(list)) \ {m}))

\* FieldMapper.suggest_mapping
suggest_mapping(vendor_field, canonical_fields) ==
    SortByScore(Suggestions(vendor_field, canonical_fields))

(***************************************************************************)
(* The files on disk and the external collaborators                        *)
(***************************************************************************)
Paths == {"a.csv", "b.txt", "c.csv"}

\* utils.compute_file_hash: a.csv and b.txt hold the same bytes
compute_file_hash(path) ==
    CASE path = "a.csv" -> "h1"
      [] path = "b.txt" -> "h1"
      [] path = "c.csv" -> "h2"

FileIds == {compute_file_hash(p) : p \in Paths}

\* FormatDetector.detect: the extension decides
detect(path) ==
    CASE path \in {"a.csv", "c.csv"} -> "csv"
      [] path = "b.txt" -> "txt"

\* IngestionPipeline.PARSERS
PARSERS == {"csv", "tsv", "xlsx", "json", "jsonl", "xml"}

\* a decoded row: the vendor's header names and their cell values
RawRow(qty, status) == [Qty |-> qty, Status |-> status]

\* parser.parse(file_path): the chunks the decoder yields for these bytes, and
\* whether it raises after the last of them
Decode(file_id) ==
    CASE file_id = "h1" ->
            [chunks |-> << <<RawRow(Str(<<"2">>), Str(<<"n", "e", "w">>)),
                             RawRow(Str(<<" ">>), Str(<<"n", "e", "w">>))>>,
                           <<RawRow(Str(<<"5", " ">>), None)>> >>,
             raises |-> FALSE]
      [] file_id = "h2" ->
            [chunks |-> << <<RawRow(None, Str(<<"x">>))>> >>, raises |-> TRUE]

\* number of rows of the first n chunks
RECURSIVE RowsBefore(_, _)
RowsBefore(chunks, n) ==
    IF n = 0 THEN 0 ELSE RowsBefore(chunks, n - 1) + Len(chunks[n])

\* utils.generate_row_id
generate_row_id(file_id, line_number) == file_id \o "_" \o ToString(line_number)

(***************************************************************************)
(* Configuration (config_loader.py)                                        *)
(***************************************************************************)
VendorConfigs == {"default", "strict", "missing"}

\* ConfigLoader.load_vendor_config raises FileNotFoundError when the vendor
\* directory does not exist
ConfigLoads(config_name) == config_name # "missing"

\* the "mappings" of the vendor's mapping_rules.yaml, in declaration order
Mappings(config_name) ==
    IF config_name = "missing" THEN <<>>
    ELSE << <<"Qty", "quantity">>, <<"Status", "order_status">> >>

\* ConfigLoader.load_vendor_mapping_rules: every rule exact, priority 10
load_vendor_mapping_rules(config_name) ==
    [i \in 1..Len(Mappings(config_name)) |->
        MappingRule(Mappings(config_name)[i][1], Mappings(config_name)[i][2],
                    "exact", <<>>, 10, FALSE, 100)]

\* a cross-field or semantic rule as load_vendor_validation_rules keeps it
DictRule(rule_type) == [kind |-> "dict", rule_type |-> rule_type]

\* ConfigLoader.load_vendor_validation_rules: a ValidationRuleSet
load_vendor_validation_rules(config_name) ==
    CASE config_name = "default" ->
            [rules |-> <<ValidationRule("quantity", "required", 0, 0)>>,
             cross_field_rules |-> <<>>, semantic_rules |-> <<>>]
      [] config_name = "strict" ->
            [rules |-> <<ValidationRule("quantity", "required", 0, 0),
                         ValidationRule("quantity", "length", 1, 1)>>,
             cross_field_rules |-> <<DictRule("formula")>>, semantic_rules |-> <<>>]
      [] OTHER -> [rules |-> <<>>, cross_field_rules |-> <<>>, semantic_rules |-> <<>>]

\* ValidationRuleSet.__iter__
RuleSetIter(rule_set) ==
    rule_set.rules \o rule_set.cross_field_rules \o rule_set.semantic_rules

(***************************************************************************)
(* Objects                                                                 *)
(***************************************************************************)
NoReviewer == "<none>"

\* Row.approved_at = None; a set approved_at is a positive time
NoTime == 0

\* models.Row as _parse_and_create_rows constructs it
Row(file_id, line_number, raw_data) ==
    [row_id |-> generate_row_id(file_id, line_number), file_id |-> file_id,
     line_number |-> line_number, raw_data |-> raw_data,
     normalized_data |-> EmptyDict, canonical_data |-> EmptyDict,
     status |-> "pending", validation_errors |-> <<>>,
     mapping_confidence |-> EmptyDict, approved_by |-> NoReviewer,
     approved_at |-> NoTime]

\* LocalFSConnector.fetch: the FileMeta of a file on disk
fetch(path) ==
    [file_id |-> compute_file_hash(path), filename |-> path, status |-> "pending",
     error_message |-> NoMessage, row_count |-> 0, valid_rows |-> 0,
     flagged_rows |-> 0, processed |-> FALSE]

\* models.BatchResult as process_batch constructs it
BatchResult ==
    [status |-> "processing", errors |-> <<>>, total_rows |-> 0, valid_rows |-> 0,
     flagged_rows |-> 0, file_results |-> <<>>]

NoCur == [path |-> "<none>", meta |-> NoFile, gen |-> "none", next |-> 0,
          line_number |-> 0, cached |-> <<>>, counts |-> <<0, 0, 0>>]

NoHist == [discovered |-> <<>>, attempted |-> <<>>, completed |-> {}, raised |-> {},
           failure |-> <<>>, cfgFailed |-> FALSE, storeFailed |-> FALSE,
           afterStoreFailure |-> {}, propagated |-> FALSE]

NoUnit == [op |-> "none", calls |-> 0]

(***************************************************************************)
(* IngestionPipeline helpers                                               *)
(***************************************************************************)
\* process_file without its idempotency check
AlreadyProcessed_never(table, file_id) == FALSE

\* the idempotency check of process_file:
\* existing_meta and existing_meta.status == FileStatus.SUCCESS
AlreadyProcessed(table, file_id) ==
    get_file(table, file_id) # NoFile /\ get_file(table, file_id).status = "success"

\* IngestionPipeline.chunk_size as BatchRunner constructs the pipeline
chunk_size == 500

\* min(a, b)
Min(a, b) == IF a < b THEN a ELSE b

\* IngestionPipeline._chunk_rows: the i-th slice
ChunkOf(list, i) ==
    SubSeq(list, (i - 1) * chunk_size + 1, Min(i * chunk_size, Len(list)))

\* number of slices _chunk_rows yields
NumChunks(list) == (Len(list) + chunk_size - 1) \div chunk_size

\* row objects numbered from 1 in every chunk
RowChunk_restart(file_id, raw_chunk, line_number) ==
    [i \in 1..Len(raw_chunk) |-> Row(file_id, i, raw_chunk[i])]

\* the Row objects _parse_and_create_rows builds for one decoded chunk
RowChunk(file_id, raw_chunk, line_number) ==
    [i \in 1..Len(raw_chunk) |-> Row(file_id, line_number + i, raw_chunk[i])]

\* BatchRunner.discover_files
discover_files(table, listing, force) ==
    SelectSeqBy(listing,
        {i \in 1..Len(listing) :
            ~ (AlreadyProcessed(table, compute_file_hash(listing[i])) /\ ~ force)})

\* the outcomes of a sequence of n store writes: 0 when all succeed, k when
\* the k-th raises
FaultChoices(n) == IF faults > 0 THEN 0..n ELSE {0}

\* the rows of list written before the k-th write raised (all when k = 0)
Written(list, k) == IF k = 0 THEN list ELSE SubSeq(list, 1, k - 1)

\* row ids stored for a file
RowIds(table, file_id) ==
    {table[i].row_id : i \in {j \in 1..Len(table) : table[j].file_id = file_id}}

(***************************************************************************)
(* BatchRunner.process_batch                                               *)
(***************************************************************************)
Init ==
    /\ files = <<>>
    /\ rows = <<>>
    /\ writes = 0
    /\ pc = "idle"
    /\ runs = 0
    /\ cfgName = "default"
    /\ queue = <<>>
    /\ cur = NoCur
    /\ chunk = <<>>
    /\ result = BatchResult
    /\ bound = FALSE
    /\ faults = MaxFaults
    /\ batches = <<>>
    /\ hist = NoHist
    /\ consumed = [id \in {} |-> {}]
    /\ unit = NoUnit

\* directory listings: up to MaxFiles distinct files, in glob order
RECURSIVE ListingsOfLen(_)
ListingsOfLen(n) ==
    IF n = 0 THEN {<<>>}
    ELSE {Append(l, p) : l \in ListingsOfLen(n - 1), p \in Paths} 

Listings ==
    {l \in UNION {ListingsOfLen(n) : n \in 0..MaxFiles} :
        \A i, j \in 1..Len(l) : i # j => l[i] # l[j]}

\* process_batch is entered: the BatchResult is created, the files are
\* discovered, and the run returns at once when there are none
RunnerStart(listing, force, config_name) ==
    /\ pc \in {"idle", "done", "aborted"}
    /\ runs < MaxRuns
    /\ runs' = runs + 1
    /\ cfgName' = config_name
    /\ result' = BatchResult
    /\ queue' = discover_files(files, listing, force)
    /\ pc' = IF queue' = <<>> THEN "done" ELSE "config"
    /\ writes' = 0
    /\ bound' = FALSE
    /\ cur' = NoCur
    /\ chunk' = <<>>
    /\ hist' = [NoHist EXCEPT !.discovered = queue']
    /\ UNCHANGED <<files, rows, faults, consumed, unit>>
    /\ UNCHANGED batches

\* a configuration error that is swallowed, the run going on to the files
AfterConfigFailure_continue == "loop"

\* what follows a failure to load the configuration: the outer handler
\* records the error and the run returns FAILED
AfterConfigFailure == "done"

\* load_global_config, load_canonical_schema, load_vendor_mapping_rules and
\* load_vendor_validation_rules, all before the loop over the files
LoadConfig ==
    /\ pc = "config"
    /\ IF ConfigLoads(cfgName)
       THEN /\ pc' = "loop"
            /\ UNCHANGED <<result, hist>>
       ELSE /\ pc' = AfterConfigFailure
            /\ result' = [result EXCEPT !.errors = Append(@, "Vendor config directory not found"),
                                        !.status = "failed"]
            /\ hist' = [hist EXCEPT !.cfgFailed = TRUE]
    /\ UNCHANGED <<files, rows, writes, runs, cfgName, queue, cur, chunk, bound,
                   faults, consumed, unit>>
    /\ UNCHANGED batches

\* an exception that leaves the loop: no file is visited after it
QueueAfterError_break(remaining) == <<>>

\* the files the loop still visits after the per-file handler has recorded
\* an exception: the handler is inside the loop, which goes on
QueueAfterError(remaining) == remaining

\* the per-file "except Exception" of process_batch
FileFailed(path, file_id, remaining, message, stage, isStore) ==
    /\ result' = [result EXCEPT !.errors = Append(@, message)]
    /\ hist' = [hist EXCEPT !.raised = @ \cup {path},
                            !.attempted = IF stage = "ingest" THEN Append(@, path) ELSE @,
                            !.afterStoreFailure =
                                IF stage = "ingest" /\ hist.storeFailed
                                THEN @ \cup {path} ELSE @,
                            !.failure = <<file_id, stage, isStore>>,
                            !.storeFailed = @ \/ isStore]
    /\ queue' = QueueAfterError(remaining)
    /\ pc' = "loop"

\* ingestion.process_file(file_path) and batch_result.file_results.append
ProcessFile ==
    /\ pc = "loop"
    /\ queue # <<>>
    /\ LET path == Head(queue)
           file_meta == fetch(path)
           file_id == file_meta.file_id
           processing == [file_meta EXCEPT !.status = "processing"]
           success == [file_meta EXCEPT !.status = "success", !.processed = TRUE]
           failed == [file_meta EXCEPT !.status = "failed",
                                       !.error_message = "database error"]
           returned(meta, gen) ==
               /\ cur' = [NoCur EXCEPT !.path = path, !.meta = meta, !.gen = gen,
                                       !.next = 1,
                                       !.cached = IF gen = "cached"
                                                  THEN get_rows_by_file(rows, file_id)
                                                  ELSE <<>>]
               /\ result' = [result EXCEPT !.file_results = Append(@, file_id)]
               /\ hist' = [hist EXCEPT !.attempted = Append(@, path),
                                       !.failure = <<>>,
                                       !.afterStoreFailure =
                                           IF hist.storeFailed THEN @ \cup {path} ELSE @]
               /\ queue' = Tail(queue)
               /\ pc' = "iter"
       IN  IF AlreadyProcessed(files, file_id)
           THEN /\ returned(file_meta, "cached")
                /\ UNCHANGED <<files, writes, faults>>
           ELSE \E fail \in (IF faults > 1 THEN 0..3 ELSE FaultChoices(2)) :
                  CASE fail = 0 ->
                         /\ files' = insert_file(insert_file(files, processing), success)
                         /\ writes' = writes + 2
                         /\ returned(success, "parse")
                         /\ UNCHANGED faults
                    [] fail = 1 ->
                         \* insert_file(PROCESSING) raises
                         /\ FileFailed(path, file_id, Tail(queue), "database error",
                                       "ingest", TRUE)
                         /\ faults' = faults - 1
                         /\ cur' = [NoCur EXCEPT !.path = path, !.meta = processing]
                         /\ UNCHANGED <<files, writes>>
                    [] fail = 2 ->
                         \* insert_file(SUCCESS) raises; the handler stores FAILED
                         /\ FileFailed(path, file_id, Tail(queue), "database error",
                                       "ingest", TRUE)
                         /\ faults' = faults - 1
                         /\ files' = insert_file(insert_file(files, processing), failed)
                         /\ writes' = writes + 2
                         /\ cur' = [NoCur EXCEPT !.path = path, !.meta = failed]
                    [] fail = 3 ->
                         \* insert_file(SUCCESS) raises, and so does the handler's
                         /\ FileFailed(path, file_id, Tail(queue), "database error",
                                       "ingest", TRUE)
                         /\ faults' = faults - 2
                         /\ files' = insert_file(files, processing)
                         /\ writes' = writes + 1
                         /\ cur' = [NoCur EXCEPT !.path = path, !.meta = failed]
    /\ UNCHANGED <<rows, runs, cfgName, chunk, bound, consumed, unit>>
    /\ UNCHANGED batches

\* next(rows): the row iterator runs to its next yield, to its end, or raises
Iterate ==
    /\ pc = "iter"
    /\ LET file_id == cur.meta.file_id
           decoded == Decode(file_id)
           failed(message, isStore) ==
               FileFailed(cur.path, file_id, queue, message, "decode", isStore)
           exhausted ==
               /\ consumed' = IF file_id \in DOMAIN consumed THEN consumed
                              ELSE [id \in DOMAIN consumed \cup {file_id} |->
                                       IF id = file_id THEN RowIds(rows, file_id)
                                       ELSE consumed[id]]
               /\ pc' = "validate"
               /\ UNCHANGED <<result, hist, queue, rows, chunk>>
       IN  IF cur.gen = "cached"
           THEN \* _chunk_rows(existing_rows)
                IF cur.next <= NumChunks(cur.cached)
                THEN /\ chunk' = ChunkOf(cur.cached, cur.next)
                     /\ cur' = [cur EXCEPT !.next = @ + 1]
                     /\ pc' = "normalize"
                     /\ UNCHANGED <<files, rows, writes, faults, result, hist, queue,
                                    consumed>>
                ELSE /\ exhausted
                     /\ UNCHANGED <<files, writes, faults, cur>>
           ELSE \* _parse_and_create_rows
                IF detect(cur.path) \notin PARSERS
                THEN /\ failed("Unsupported format", FALSE)
                     /\ UNCHANGED <<files, rows, writes, faults, cur, chunk, consumed>>
                ELSE IF cur.next <= Len(decoded.chunks)
                THEN LET row_chunk == RowChunk(file_id, decoded.chunks[cur.next],
                                               cur.line_number)
                     IN  \E fail \in FaultChoices(Len(row_chunk)) :
                            /\ rows' = insert_rows(rows, Written(row_chunk, fail))
                            /\ writes' = writes + Len(Written(row_chunk, fail))
                            /\ cur' = [cur EXCEPT !.next = @ + 1,
                                                  !.line_number = @ + Len(row_chunk)]
                            /\ IF fail = 0
                               THEN /\ chunk' = row_chunk
                                    /\ pc' = "normalize"
                                    /\ UNCHANGED <<faults, result, hist, queue>>
                               ELSE /\ failed("database error", TRUE)
                                    /\ faults' = faults - 1
                                    /\ UNCHANGED chunk
                            /\ UNCHANGED <<files, consumed>>
                ELSE IF decoded.raises
                THEN /\ failed("Error parsing file", FALSE)
                     /\ UNCHANGED <<files, rows, writes, faults, cur, chunk, consumed>>
                ELSE \* file_meta.row_count = line_number; insert_file(file_meta)
                     \E fail \in FaultChoices(1) :
                        /\ cur' = [cur EXCEPT !.meta.row_count = cur.line_number]
                        /\ IF fail = 0
                           THEN /\ files' = insert_file(files, cur'.meta)
                                /\ writes' = writes + 1
                                /\ exhausted
                                /\ UNCHANGED faults
                           ELSE /\ failed("database error", TRUE)
                                /\ faults' = faults - 1
                                /\ UNCHANGED <<files, rows, writes, chunk, consumed>>
    /\ UNCHANGED <<runs, cfgName, bound, unit>>
    /\ UNCHANGED batches

\* a process_batch that hands the rows on as they came
process_batch_rows_skip(mapping_rules, list) == list

\* a process_batch that also puts the rows back to PENDING without violations
process_batch_rows_reset(mapping_rules, list) ==
    [i \in 1..Len(list) |->
        LET normalized == [list[i] EXCEPT !.normalized_data = normalize_row(list[i].raw_data)]
            mapping == map_row(mapping_rules, normalized)
        IN  [normalized EXCEPT !.canonical_data = mapping.mapped,
                               !.mapping_confidence = mapping.confidence,
                               !.status = "pending", !.validation_errors = <<>>]]

\* NormalizationPipeline.process_batch on rows with mapping_rules: the rows
\* after normalize_row and map_row
process_batch_rows(mapping_rules, list) ==
    [i \in 1..Len(list) |->
        LET normalized == [list[i] EXCEPT !.normalized_data = normalize_row(list[i].raw_data)]
            mapping == map_row(mapping_rules, normalized)
        IN  [normalized EXCEPT !.canonical_data = mapping.mapped,
                               !.mapping_confidence = mapping.confidence]]

\* normalization.process_batch(chunk): normalize, map, persist each row
Normalize ==
    /\ pc = "normalize"
    /\ LET processed == process_batch_rows(load_vendor_mapping_rules(cfgName), chunk)
       IN  \E fail \in FaultChoices(Len(processed)) :
              /\ rows' = insert_rows(rows, Written(processed, fail))
              /\ writes' = writes + Len(Written(processed, fail))
              /\ IF fail = 0
                 THEN /\ pc' = "iter"
                      /\ UNCHANGED <<faults, result, hist, queue>>
                 ELSE /\ FileFailed(cur.path, cur.meta.file_id, queue, "database error",
                                    "normalize", TRUE)
                      /\ faults' = faults - 1
    /\ UNCHANGED <<files, runs, cfgName, cur, chunk, bound, consumed, unit>>
    /\ UNCHANGED batches

\* the rows validate_batch has validated when it stops: index of the first
\* row whose validation raises, or 0
FirstRaise(pipeline, list) ==
    IF \E i \in 1..Len(list) : validate_row(pipeline, list[i]).raised
    THEN CHOOSE i \in 1..Len(list) :
            /\ validate_row(pipeline, list[i]).raised
            /\ \A j \in 1..(i - 1) : ~ validate_row(pipeline, list[j]).raised
    ELSE 0

\* the rows of list after validate_row
validated_rows(pipeline, list) ==
    [i \in 1..Len(list) |-> validate_row(pipeline, list[i]).row]

\* number of rows of list with the status
CountStatus(list, status) ==
    Cardinality({i \in 1..Len(list) : list[i].status = status})

\* all_rows = get_rows_by_file(file_id); validation.validate_batch(all_rows)
Validate ==
    /\ pc = "validate"
    /\ LET pipeline == ValidationPipeline(
                           RuleSetIter(load_vendor_validation_rules(cfgName)), <<>>, <<>>)
           all_rows == get_rows_by_file(rows, cur.meta.file_id)
           raiseAt == FirstRaise(pipeline, all_rows)
           validated == validated_rows(pipeline, all_rows)
       IN  \E fail \in (IF raiseAt = 0 THEN FaultChoices(Len(all_rows))
                        ELSE {0} \cup (FaultChoices(Len(all_rows)) \cap 1..(raiseAt - 1))) :
              LET stop == IF fail # 0 THEN fail ELSE raiseAt
              IN  /\ rows' = insert_rows(rows, Written(validated, stop))
                  /\ writes' = writes + Len(Written(validated, stop))
                  /\ faults' = IF fail # 0 THEN faults - 1 ELSE faults
                  /\ IF stop = 0
                     THEN /\ bound' = TRUE
                          /\ cur' = [cur EXCEPT !.counts =
                                        <<Len(all_rows), CountStatus(validated, "valid"),
                                          Len(all_rows) - CountStatus(validated, "valid")>>]
                          /\ pc' = "export"
                          /\ UNCHANGED <<result, hist, queue>>
                     ELSE /\ FileFailed(cur.path, cur.meta.file_id, queue,
                                        IF fail # 0 THEN "database error"
                                        ELSE "'dict' object has no attribute 'field'",
                                        "validate", fail # 0)
                          /\ UNCHANGED <<bound, cur>>
    /\ UNCHANGED <<files, runs, cfgName, chunk, consumed, unit>>
    /\ UNCHANGED batches

\* export_pipeline.export_file(...) and the totals of the batch result
Export ==
    /\ pc = "export"
    /\ \E io_error \in (IF get_rows_by_file(rows, cur.meta.file_id) = <<>>
                        THEN {FALSE} ELSE BOOLEAN) :
          IF io_error
          THEN FileFailed(cur.path, cur.meta.file_id, queue, "export failed", "export",
                          FALSE)
          ELSE /\ result' = [result EXCEPT !.total_rows = @ + cur.counts[1],
                                           !.valid_rows = @ + cur.counts[2],
                                           !.flagged_rows = @ + cur.counts[3]]
               /\ hist' = [hist EXCEPT !.completed = @ \cup {cur.path}]
               /\ pc' = "loop"
               /\ UNCHANGED queue
    /\ UNCHANGED <<files, rows, writes, runs, cfgName, cur, chunk, bound, faults,
                   consumed, unit>>
    /\ UNCHANGED batches

\* the status process_batch sets after the loop
LoopStatus(errors) == IF errors = <<>> THEN "success" ELSE "partial_success"

\* after the loop: status, Reporter.generate_report(valid, flagged), return;
\* the outer handler turns an exception into FAILED
Finish ==
    /\ pc = "loop"
    /\ queue = <<>>
    /\ \E io_error \in BOOLEAN :
          IF ~ bound \/ io_error
          THEN result' = [result EXCEPT
                             !.errors = Append(@, IF ~ bound
                                                  THEN "local variable 'valid' referenced before assignment"
                                                  ELSE "report failed"),
                             !.status = "failed"]
          ELSE result' = [result EXCEPT !.status = LoopStatus(result.errors)]
    /\ pc' = "done"
    /\ cur' = NoCur
    /\ chunk' = <<>>
    /\ UNCHANGED <<files, rows, writes, runs, cfgName, queue, bound, faults, hist,
                   consumed, unit>>
    /\ UNCHANGED batches

\* the run is killed between two steps: what it held in memory is lost, the
\* store stays as it is
Abort ==
    /\ pc \in {"config", "loop", "iter", "normalize", "validate", "export"}
    /\ pc' = "aborted"
    /\ queue' = <<>>
    /\ cur' = NoCur
    /\ chunk' = <<>>
    /\ result' = BatchResult
    /\ bound' = FALSE
    /\ hist' = NoHist
    /\ UNCHANGED <<files, rows, writes, runs, cfgName, faults, consumed, unit>>
    /\ UNCHANGED batches

Next ==
    \/ \E listing \in Listings, force \in BOOLEAN, config_name \in VendorConfigs :
          RunnerStart(listing, force, config_name)
    \/ LoadConfig
    \/ ProcessFile
    \/ Iterate
    \/ Normalize
    \/ Validate
    \/ Export
    \/ Finish
    \/ Abort

Spec == Init /\ [][Next]_vars

(***************************************************************************)
(* SpecUnit: direct calls of the mapper and of the validation pipeline     *)
(***************************************************************************)
\* mapping rules a FieldMapper is built from
RulePool ==
    {MappingRule("Qty", "quantity", "exact", <<>>, 5, FALSE, 90),
     MappingRule("Quantity", "quantity", "exact", <<>>, 10, FALSE, 80),
     MappingRule("Quantity", "quantity", "substring", <<"3">>, 7, FALSE, 70),
     MappingRule("Qty", "amount", "regex", <<"2">>, 10, FALSE, 60),
     MappingRule("Quantity", "quantity", "exact", <<>>, 20, TRUE, 50),
     MappingRule("Qty", "quantity", "function", <<>>, 1, FALSE, 100)}

RECURSIVE RuleListsOfLen(_)
RuleListsOfLen(n) ==
    IF n = 0 THEN {<<>>}
    ELSE {Append(l, r) : l \in RuleListsOfLen(n - 1), r \in RulePool}

\* rule lists without repetition, in every declaration order
RuleLists ==
    {l \in UNION {RuleListsOfLen(n) : n \in 0..MaxRules} :
        \A i, j \in 1..Len(l) : i # j => l[i] # l[j]}

\* rows to map: normalized data over the vendor's headers
MapRows ==
    {[Row("u", 1, d) EXCEPT !.normalized_data = d] :
        d \in {[Qty |-> Str(<<"2">>), Quantity |-> Str(<<"3">>)],
               [Qty |-> Str(<<"2">>), Quantity |-> Str(<<"2">>)],
               [Qty |-> None, Quantity |-> Str(<<"4">>)],
               [Quantity |-> Str(<<"3">>)],
               [Qty |-> Str(<<"5">>)]}}

\* FieldMapper(mapping_rules).map_row(row)
MapRow(mapping_rules, row) ==
    /\ unit.calls < MaxCalls
    /\ unit' = [op |-> "map_row", calls |-> unit.calls + 1, rules |-> mapping_rules, row |-> row,
                out |-> map_row(mapping_rules, row)]
    /\ UNCHANGED <<files, rows, writes, pc, runs, cfgName, queue, cur, chunk, result,
                   bound, faults, hist, consumed>>
    /\ UNCHANGED batches

New == Str(<<"n", "e", "w">>)

\* canonical data of the rows to validate
CanonPool ==
    {[quantity |-> Str(<<"2">>), order_status |-> New],
     [quantity |-> None, order_status |-> New],
     [quantity |-> Str(<<"2">>), order_status |-> Str(<<"x">>)],
     [quantity |-> None, order_status |-> Str(<<"x">>)],
     [order_status |-> New],
     EmptyDict,
     [quantity |-> Str(<<"2", "2">>), order_status |-> New, discount |-> Str(<<"1">>)]}

\* the rows to validate: line i of file "u", as normalization left it or as
\* an earlier stage marked it
ValidateRows(i) ==
    {[Row("u", i, EmptyDict) EXCEPT !.canonical_data = c, !.status = st] :
        c \in CanonPool, st \in {"pending", "error"}}

\* validation pipelines with rules in one, two or all three layers
PipelinePool ==
    {ValidationPipeline(<<ValidationRule("quantity", "required", 0, 0),
                          ValidationRule("quantity", "length", 1, 1)>>,
                        <<DependencyRule("order_status", New, "quantity"),
                          MutualExclusionRule(<<"quantity", "discount">>)>>,
                        <<StatusTransitionRule({New}), InventoryRule>>),
     ValidationPipeline(<<ValidationRule("quantity", "required", 0, 0)>>, <<>>, <<>>),
     ValidationPipeline(<<>>, <<DependencyRule("order_status", New, "quantity")>>, <<>>),
     ValidationPipeline(<<>>, <<>>, <<StatusTransitionRule({New})>>),
     ValidationPipeline(<<>>, <<>>, <<>>)}

\* ValidationPipeline(...).validate_row(row)
ValidateRow(pipeline, row) ==
    /\ unit.calls < MaxCalls
    /\ unit' = [op |-> "validate_row", calls |-> unit.calls + 1, pipeline |-> pipeline, before |-> row,
                row |-> validate_row(pipeline, row).row]
    /\ UNCHANGED <<files, rows, writes, pc, runs, cfgName, queue, cur, chunk, result,
                   bound, faults, hist, consumed>>
    /\ UNCHANGED batches

\* formula rules: over the three fields of the expression, and over two of
\* them only (the expression then names a field the rule does not read)
FormulaRules ==
    {FormulaRule(<<"quantity", "price", "total">>,
                 ProductEquals("quantity", "price", "total")),
     FormulaRule(<<"quantity", "price">>,
                 ProductEquals("quantity", "price", "total"))}

\* canonical data for the formula rules: numeric strings, numbers, a missing
\* field, a null field, a non-numeric operand and a non-numeric total
FormulaData ==
    {[quantity |-> Str(<<"2">>), price |-> Str(<<"3", ".", "5", "0">>),
      total |-> Str(<<"7", ".", "0", "0">>)],
     [quantity |-> Str(<<"2">>), price |-> Str(<<"3", ".", "5", "0">>),
      total |-> Str(<<"8", ".", "0", "0">>)],
     [quantity |-> Num(2, 1), price |-> Num(7, 2), total |-> Num(7, 1)],
     [quantity |-> Num(2, 1), price |-> Num(7, 2), total |-> Str(<<" ", "8">>)],
     [quantity |-> Str(<<"2">>), price |-> Str(<<"3", ".", "5", "0">>)],
     [quantity |-> Str(<<"2">>), price |-> Str(<<"3", ".", "5", "0">>), total |-> None],
     [quantity |-> Str(<<"a", "b", "c">>), price |-> Str(<<"3", ".", "5", "0">>),
      total |-> Str(<<"7", ".", "0", "0">>)],
     [quantity |-> Str(<<"2">>), price |-> Str(<<"3", ".", "5", "0">>),
      total |-> Str(<<"a", "b", "c">>)]}

\* the rows the formula rules are run on
FormulaRows ==
    {[Row("u", 1, EmptyDict) EXCEPT !.canonical_data = c] : c \in FormulaData}

\* row lists for validate_batch: lines 1..n of file "u"
RECURSIVE BatchesOfLen(_)
BatchesOfLen(n) ==
    IF n = 0 THEN {<<>>}
    ELSE {Append(l, r) : l \in BatchesOfLen(n - 1), r \in ValidateRows(n)}

\* ValidationPipeline(...).validate_batch(rows): each row is validated and
\* written to the store
ValidateBatch(pipeline, list) ==
    /\ unit.calls < MaxCalls
    /\ rows' = insert_rows(rows, validated_rows(pipeline, list))
    /\ unit' = [op |-> "validate_batch", calls |-> unit.calls + 1, pipeline |-> pipeline, before |-> list,
                valid |-> CountStatus(validated_rows(pipeline, list), "valid"),
                flagged |-> Len(list) - CountStatus(validated_rows(pipeline, list), "valid")]
    /\ UNCHANGED <<files, writes, pc, runs, cfgName, queue, cur, chunk, result,
                   bound, faults, hist, consumed>>
    /\ UNCHANGED batches

\* key field lists given to the Reconciler
KeyFieldLists == {<<"order_id">>, <<"order_id", "sku">>}

\* a violation a row carries before it is reconciled
OwnError == [field |-> "sku", rule |-> "required", message |-> "sku failed required"]

\* the rows to reconcile, as <<raw data, canonical data, status, violations,
\* reviewer>>: case and whitespace variants of one key, a row that was not
\* mapped (raw data only), a null and an absent key field
DedupData ==
    {<<EmptyDict, [order_id |-> Str(<<"a", "1", " ">>), sku |-> Str(<<"x">>)],
       "valid", <<>>, NoReviewer>>,
     <<EmptyDict, [order_id |-> Str(<<"A", "1">>), sku |-> Str(<<"x">>)],
       "flagged", <<OwnError>>, "ann">>,
     <<[order_id |-> Str(<<"A", "1">>), sku |-> Str(<<"x">>)], EmptyDict,
       "pending", <<>>, NoReviewer>>,
     <<EmptyDict, [order_id |-> None, sku |-> Str(<<"x">>)],
       "valid", <<>>, NoReviewer>>,
     <<EmptyDict, [order_id |-> Str(<<"x">>), sku |-> None],
       "flagged", <<OwnError>>, NoReviewer>>,
     <<EmptyDict, [sku |-> Str(<<"x">>)], "valid", <<>>, NoReviewer>>}

\* line i of file "u" for each of them
DedupRows(i) ==
    {[Row("u", i, d[1]) EXCEPT !.canonical_data = d[2], !.status = d[3],
                               !.validation_errors = d[4], !.approved_by = d[5]] :
        d \in DedupData}

RECURSIVE DedupListsOfLen(_)
DedupListsOfLen(n) ==
    IF n = 0 THEN {<<>>}
    ELSE {Append(l, r) : l \in DedupListsOfLen(n - 1), r \in DedupRows(n)}

\* Reconciler.generate_dedup_key(a, key_fields) and (b, key_fields)
DedupKey(a, b, key_fields) ==
    /\ unit.calls < MaxCalls
    /\ unit' = [op |-> "generate_dedup_key", calls |-> unit.calls + 1, a |-> a, b |-> b,
                key_fields |-> key_fields,
                key_a |-> generate_dedup_key(a, key_fields),
                key_b |-> generate_dedup_key(b, key_fields)]
    /\ UNCHANGED <<files, rows, writes, pc, runs, cfgName, queue, cur, chunk, result,
                   bound, faults, hist, consumed>>
    /\ UNCHANGED batches

\* Reconciler.mark_duplicates(rows, key_fields, keep_first)
MarkDuplicates(list, key_fields, keep_first) ==
    /\ unit.calls < MaxCalls
    /\ unit' = [op |-> "mark_duplicates", calls |-> unit.calls + 1, before |-> list,
                key_fields |-> key_fields, keep_first |-> keep_first,
                out |-> mark_duplicates(list, key_fields, keep_first)]
    /\ UNCHANGED <<files, rows, writes, pc, runs, cfgName, queue, cur, chunk, result,
                   bound, faults, hist, consumed>>
    /\ UNCHANGED batches

NextUnit ==
    \/ \E mapping_rules \in RuleLists, row \in MapRows : MapRow(mapping_rules, row)
    \/ \E pipeline \in PipelinePool, row \in ValidateRows(1) : ValidateRow(pipeline, row)
    \/ \E rule \in FormulaRules, row \in FormulaRows :
          ValidateRow(ValidationPipeline(<<>>, <<rule>>, <<>>), row)
    \/ \E pipeline \in PipelinePool, n \in 1..MaxBatch :
          \E list \in BatchesOfLen(n) : ValidateBatch(pipeline, list)

SpecUnit == Init /\ [][NextUnit]_vars

(***************************************************************************)
(* SpecReconcile: direct calls of the Reconciler                           *)
(***************************************************************************)
NextReconcile ==
    \/ \E a \in DedupRows(1), b \in DedupRows(2), key_fields \in KeyFieldLists :
          DedupKey(a, b, key_fields)
    \/ \E n \in 0..MaxDedup, key_fields \in KeyFieldLists, keep_first \in BOOLEAN :
          \E list \in DedupListsOfLen(n) : MarkDuplicates(list, key_fields, keep_first)

SpecReconcile == Init /\ [][NextReconcile]_vars

(***************************************************************************)
(* SpecSuggest: direct calls of FieldMapper.suggest_mapping                *)
(***************************************************************************)
RECURSIVE NamesOfLen(_)
\* field names of n characters
NamesOfLen(n) ==
    IF n = 0 THEN {<<>>}
    ELSE {Append(name, c) : name \in NamesOfLen(n - 1), c \in {"a", "b", "A"}}

\* vendor and canonical field names
Names == UNION {NamesOfLen(n) : n \in 1..MaxName}

\* FieldMapper.suggest_mapping(vendor_field, canonical_fields)
SuggestMapping(vendor_field, canonical_fields) ==
    /\ unit.op = "none"
    /\ unit' = [op |-> "suggest_mapping", calls |-> 1,
                vendor_field |-> vendor_field, canonical_fields |-> canonical_fields,
                out |-> suggest_mapping(vendor_field, canonical_fields)]
    /\ UNCHANGED <<files, rows, writes, pc, runs, cfgName, queue, cur, chunk, result,
                   bound, faults, hist, consumed>>
    /\ UNCHANGED batches

\* the candidate lists hold one or two canonical field names
NextSuggest ==
    \E vendor_field \in Names :
        \E canonical_fields \in {<<a>> : a \in Names} \cup {<<a, b>> : a, b \in Names} :
            SuggestMapping(vendor_field, canonical_fields)

SpecSuggest == Init /\ [][NextSuggest]_vars

(***************************************************************************)
(* SpecStore: direct calls of MetadataStore.insert_row / insert_file       *)
(***************************************************************************)
\* RowRecords to insert: lines of two files, VALID or FLAGGED
StoreRows ==
    {[Row(id[1], id[2], [Qty |-> Str(<<"2">>)]) EXCEPT !.status = st] :
        id \in {<<"h1", 1>>, <<"h1", 2>>, <<"h2", 1>>}, st \in {"valid", "flagged"}}

\* FileRecords to insert
StoreFiles ==
    {[fetch(path) EXCEPT !.status = st] :
        path \in {"a.csv", "c.csv"}, st \in {"success", "failed"}}

\* MetadataStore.insert_row(row); the call remembers the tables before it
InsertRow(row) ==
    /\ unit.calls < MaxStoreOps
    /\ rows' = insert_row(rows, row)
    /\ unit' = [op |-> "insert_row", calls |-> unit.calls + 1, record |-> row,
                rows_before |-> rows, files_before |-> files]
    /\ UNCHANGED <<files, writes, pc, runs, cfgName, queue, cur, chunk, result,
                   bound, faults, hist, consumed>>
    /\ UNCHANGED batches

\* MetadataStore.insert_file(file_meta)
InsertFile(file_meta) ==
    /\ unit.calls < MaxStoreOps
    /\ files' = insert_file(files, file_meta)
    /\ unit' = [op |-> "insert_file", calls |-> unit.calls + 1, record |-> file_meta,
                rows_before |-> rows, files_before |-> files]
    /\ UNCHANGED <<rows, writes, pc, runs, cfgName, queue, cur, chunk, result,
                   bound, faults, hist, consumed>>
    /\ UNCHANGED batches

Reviewers == {"ann"}

\* row_ids given to the CLI: the ids of up to two stored rows
StoredIdLists ==
    {<<>>} \cup {<<rows[i].row_id>> : i \in 1..Len(rows)}
           \cup {<<rows[p[1]].row_id, rows[p[2]].row_id>> :
                     p \in {q \in (1..Len(rows)) \X (1..Len(rows)) : q[1] # q[2]}}

\* CLI.approve_rows(row_ids, reviewer_id)
ApproveRows(row_ids, reviewer_id) ==
    /\ unit.calls < MaxStoreOps
    /\ rows' = approve_rows(rows, row_ids, reviewer_id).table
    /\ unit' = [op |-> "approve_rows", calls |-> unit.calls + 1, row_ids |-> row_ids,
                reviewer_id |-> reviewer_id,
                raised |-> approve_rows(rows, row_ids, reviewer_id).raised,
                rows_before |-> rows, files_before |-> files]
    /\ UNCHANGED <<files, writes, pc, runs, cfgName, queue, cur, chunk, result,
                   bound, faults, hist, consumed>>
    /\ UNCHANGED batches

\* CLI.reject_rows(row_ids, reviewer_id)
RejectRows(row_ids, reviewer_id) ==
    /\ unit.calls < MaxStoreOps
    /\ rows' = reject_rows(rows, row_ids, reviewer_id).table
    /\ unit' = [op |-> "reject_rows", calls |-> unit.calls + 1, row_ids |-> row_ids,
                reviewer_id |-> reviewer_id,
                raised |-> reject_rows(rows, row_ids, reviewer_id).raised,
                rows_before |-> rows, files_before |-> files]
    /\ UNCHANGED <<files, writes, pc, runs, cfgName, queue, cur, chunk, result,
                   bound, faults, hist, consumed>>
    /\ UNCHANGED batches

NextStore ==
    \/ \E row \in StoreRows : InsertRow(row)
    \/ \E file_meta \in StoreFiles : InsertFile(file_meta)
    \/ \E row_ids \in StoredIdLists, reviewer_id \in Reviewers :
          ApproveRows(row_ids, reviewer_id)
    \/ \E row_ids \in StoredIdLists, reviewer_id \in Reviewers :
          RejectRows(row_ids, reviewer_id)

SpecStore == Init /\ [][NextStore]_vars

(***************************************************************************)
(* SpecReview: process_batch runs, and a reviewed row is written to the     *)
(* store by another process, between two runs or between two steps of one  *)
(***************************************************************************)
\* store.insert_row(row) for a stored FLAGGED row whose approved_by /
\* approved_at a reviewer has set: the write path of the two columns
InsertReviewed(row_id, reviewer_id) ==
    /\ unit.calls < MaxReviews
    /\ get_row(rows, row_id) # NoRow
    /\ get_row(rows, row_id).status = "flagged"
    /\ rows' = insert_row(rows, [get_row(rows, row_id) EXCEPT
                                    !.approved_by = reviewer_id,
                                    !.approved_at = unit.calls + 1])
    /\ unit' = [op |-> "insert_reviewed", calls |-> unit.calls + 1, row_id |-> row_id]
    /\ UNCHANGED <<files, writes, pc, runs, cfgName, queue, cur, chunk, result,
                   bound, faults, hist, consumed>>
    /\ UNCHANGED batches

NextReview ==
    \/ Next
    \/ \E i \in 1..Len(rows), reviewer_id \in Reviewers :
          InsertReviewed(rows[i].row_id, reviewer_id)

SpecReview == Init /\ [][NextReview]_vars

(***************************************************************************)
(* SpecSession: rows mapped and validated one after the other by the same  *)
(* FieldMapper and ValidationPipeline instances                            *)
(***************************************************************************)
\* MappingEngine.map_rows on one row, then validate_row on it: the row
\* object afterwards and the mapper instance afterwards
MapThenValidate(self, pipeline, row) ==
    LET mapping == FieldMapper_map_row(self, row)
        mapped == [row EXCEPT !.canonical_data = mapping.mapped,
                              !.mapping_confidence = mapping.confidence]
    IN  [self |-> mapping.self, row |-> validate_row(pipeline, mapped).row]

\* the instances are built and the first row goes through them
SessionStart(mapping_rules, pipeline, row) ==
    /\ unit.op = "none"
    /\ LET out == MapThenValidate(FieldMapper(mapping_rules), pipeline, row)
       IN  unit' = [op |-> "session", calls |-> 1, rules |-> mapping_rules,
                    pipeline |-> pipeline, mapper |-> out.self, row |-> row,
                    out |-> out.row]
    /\ UNCHANGED <<files, rows, writes, pc, runs, cfgName, queue, cur, chunk, result,
                   bound, faults, hist, consumed>>
    /\ UNCHANGED batches

\* another row, or the row object the last call returned, goes through the
\* same instances
SessionNext(row) ==
    /\ unit.op = "session"
    /\ unit.calls < MaxSession
    /\ LET out == MapThenValidate(unit.mapper, unit.pipeline, row)
       IN  unit' = [unit EXCEPT !.calls = @ + 1, !.mapper = out.self, !.row = row,
                                !.out = out.row]
    /\ UNCHANGED <<files, rows, writes, pc, runs, cfgName, queue, cur, chunk, result,
                   bound, faults, hist, consumed>>
    /\ UNCHANGED batches

NextSession ==
    \/ \E mapping_rules \in RuleLists, pipeline \in PipelinePool, row \in MapRows :
          SessionStart(mapping_rules, pipeline, row)
    \/ \E row \in MapRows : SessionNext(row)
    \/ SessionNext(unit.out)

SpecSession == Init /\ [][NextSession]_vars

(***************************************************************************)
(* Properties                                                              *)
(***************************************************************************)
\* the data map_row reads
SourceData(row) ==
    IF row.normalized_data # EmptyDict THEN row.normalized_data ELSE row.raw_data

\* the rule finds its vendor field in the row and matches its value
Matched(rule, source_data) ==
    /\ rule.vendor_field \in DOMAIN source_data
    /\ RuleMatches(rule, source_data[rule.vendor_field])

\* C1: when two vendor fields of a row are each matched by a rule targeting
\* the same canonical field, the canonical field holds the value and the
\* confidence of the rule with the lower priority number, in whatever order
\* the rules were declared
C1_LowerPriorityNumberWins ==
    unit.op = "map_row" =>
        \A i, j \in 1..Len(unit.rules) :
            LET a == unit.rules[i]
                b == unit.rules[j]
                source_data == SourceData(unit.row)
            IN  (/\ Len(unit.rules) = 2
                 /\ a.canonical_field = b.canonical_field
                 /\ a.vendor_field # b.vendor_field
                 /\ Matched(a, source_data)
                 /\ Matched(b, source_data)
                 /\ a.priority < b.priority)
                => /\ unit.out.mapped[a.canonical_field] = source_data[a.vendor_field]
                   /\ unit.out.confidence[a.canonical_field] = a.confidence

\* number of records the files table holds for the file_id
FileRecords(file_id) ==
    Cardinality({i \in 1..Len(files) : files[i].file_id = file_id})

\* number of records the rows table holds for the file_id
RowRecords(file_id) ==
    Cardinality({i \in 1..Len(rows) : rows[i].file_id = file_id})

\* C2: once process_file has run on some bytes and its row iterator has run
\* out, the store holds exactly one FileRecord for the content hash and, for
\* that file, the same row_ids in the same number, whatever is run on the
\* same bytes afterwards
C2_ReingestIsIdempotent ==
    \A file_id \in DOMAIN consumed :
        /\ FileRecords(file_id) = 1
        /\ RowIds(rows, file_id) = consumed[file_id]
        /\ RowRecords(file_id) = Cardinality(consumed[file_id])

\* process_file has run a second time, under another name, on bytes whose
\* three rows an earlier run had ingested
C2_Witness ==
    /\ runs = 2
    /\ pc = "validate"
    /\ cur.path = "b.txt"
    /\ cur.gen = "cached"
    /\ "h1" \in DOMAIN consumed
    /\ Cardinality(consumed["h1"]) = 3

\* number of rows the decoder yields for the bytes
TotalRows(file_id) == RowsBefore(Decode(file_id).chunks, Len(Decode(file_id).chunks))

\* every row of the file has been decoded and is in the store
AllRowsPersisted(file_id) ==
    /\ ~ Decode(file_id).raises
    /\ RowIds(rows, file_id) =
          {generate_row_id(file_id, n) : n \in 1..TotalRows(file_id)}

\* C3: a file whose ingestion has started and whose rows are not all decoded
\* and persisted has the persisted status PROCESSING or FAILED, never SUCCESS
C3_UnfinishedFileIsReprocessable ==
    \A i \in 1..Len(files) :
        ~ AllRowsPersisted(files[i].file_id)
            => files[i].status \in {"processing", "failed"}

\* C4: when decoding a file fails (unsupported format, parser exception), or
\* validation or export raises for it, the file's persisted record has status
\* FAILED and carries the error message
C4_FailedFileIsMarkedFailed ==
    (/\ hist.failure # <<>>
     /\ hist.failure[2] \in {"decode", "normalize", "validate", "export"}
     /\ ~ hist.failure[3])
        => /\ get_file(files, hist.failure[1]).status = "failed"
           /\ get_file(files, hist.failure[1]).error_message # NoMessage

\* C5: when process_batch returns after its loop, process_file was called for
\* every discovered file in order, each file either went through ingestion,
\* mapping, validation and export or raised itself, and every exception is
\* in the error list
C5_FailingFileDoesNotStopTheBatch ==
    (pc = "done" /\ hist.discovered # <<>> /\ ~ hist.cfgFailed)
        => /\ hist.attempted = hist.discovered
           /\ \A i \in 1..Len(hist.discovered) :
                 hist.discovered[i] \in hist.completed \cup hist.raised
           /\ Len(result.errors) >= Cardinality(hist.raised)

\* the first file raised and the file after it was processed to the end
C5_Witness ==
    /\ pc = "done"
    /\ hist.discovered = <<"c.csv", "a.csv">>
    /\ "c.csv" \in hist.raised
    /\ "a.csv" \in hist.completed
    /\ Len(result.errors) = 1

\* C6: a returned BatchResult has status SUCCESS, PARTIAL_SUCCESS or FAILED;
\* SUCCESS exactly when no error was recorded; FAILED only when no file was
\* processed to the end
C6_ResultStatusIsFinal ==
    pc = "done"
        => /\ result.status \in {"success", "partial_success", "failed"}
           /\ (result.status = "success") <=> (result.errors = <<>>)
           /\ (result.status = "failed") => (hist.completed = {})

\* C7: a failed store write ends the run: it reaches the caller of
\* process_batch as an exception and no file is processed after it
C7_StoreFailureIsFatal ==
    hist.storeFailed
        => /\ hist.afterStoreFailure = {}
           /\ (pc = "done" => hist.propagated)

\* C8: in a run whose configuration failed to load, no step changes the
\* files or the rows of the store
C8_ConfigFailureTouchesNothing ==
    [][hist'.cfgFailed => (files' = files /\ rows' = rows /\ writes' = 0)]_vars

\* a run over a populated store has returned after its configuration failed
\* to load
C8_Witness ==
    /\ pc = "done"
    /\ hist.cfgFailed
    /\ result.status = "failed"
    /\ files # <<>>
    /\ rows # <<>>

\* the store holds a SUCCESS record for the file_id
StoredSuccess(file_id) ==
    \E i \in 1..Len(files) : files[i].file_id = file_id /\ files[i].status = "success"

\* C9: process_file on bytes whose FileRecord is stored as SUCCESS executes no
\* write: the files and rows tables are unchanged
C9_SuccessIsNotReingested ==
    [][(/\ pc = "loop"
        /\ queue # <<>>
        /\ StoredSuccess(compute_file_hash(Head(queue)))
        /\ pc' # "aborted")
       => (files' = files /\ rows' = rows /\ writes' = writes)]_vars

\* process_file has returned the stored rows of a file already SUCCESS
C9_Witness ==
    /\ pc = "iter"
    /\ cur.gen = "cached"
    /\ cur.cached # <<>>
    /\ StoredSuccess(cur.meta.file_id)

\* the violations the three layers return for the data, as a set
LayerViolations(pipeline, canonical_data) ==
    LET structural == RowValidator_validate(pipeline.row_validator, canonical_data).errors
        cross == CrossFieldValidator_validate(pipeline.cross_validator, canonical_data)
        semantic == SemanticValidator_validate(pipeline.semantic_validator, canonical_data)
    IN  {structural[i] : i \in 1..Len(structural)}
            \cup {cross[i] : i \in 1..Len(cross)}
            \cup {semantic[i] : i \in 1..Len(semantic)}

\* the status is VALID when there is no violation and FLAGGED otherwise
VerdictMatches(status, violations) ==
    /\ status \in {"valid", "flagged"}
    /\ (status = "valid") <=> (violations = {})

\* C10: the row validate_row returns is VALID iff the three layers return no
\* violation for its canonical data and FLAGGED otherwise, never PENDING or
\* ERROR, and so is every row validate_batch has written to the store
C10_ValidIffNoViolation ==
    /\ unit.op = "validate_row"
          => VerdictMatches(unit.row.status,
                            LayerViolations(unit.pipeline, unit.before.canonical_data))
    /\ unit.op = "validate_batch"
          => \A i \in 1..Len(unit.before) :
                VerdictMatches(get_row(rows, unit.before[i].row_id).status,
                               LayerViolations(unit.pipeline,
                                               unit.before[i].canonical_data))

\* validate_batch has stored one VALID and one FLAGGED row, the FLAGGED one
\* for a violation of the semantic layer alone
C10_Witness ==
    /\ unit.op = "validate_batch"
    /\ unit.valid = 1
    /\ unit.flagged = 1
    /\ \E i \in 1..Len(rows) :
          /\ rows[i].status = "flagged"
          /\ Len(rows[i].validation_errors) = 1
          /\ rows[i].validation_errors[1].rule = "status_transition"

\* the violations of the three layers for the data, structural first, then
\* cross-field, then semantic
LayerErrors(pipeline, canonical_data) ==
    RowValidator_validate(pipeline.row_validator, canonical_data).errors
        \o CrossFieldValidator_validate(pipeline.cross_validator, canonical_data)
        \o SemanticValidator_validate(pipeline.semantic_validator, canonical_data)

\* C11: the violation list validate_row leaves on a row is the structural
\* violations followed by the cross-field violations followed by the semantic
\* violations, none left out because an earlier layer found one; so is the
\* list of every row validate_batch has written
C11_AllLayersInOrder ==
    /\ unit.op = "validate_row"
          => unit.row.validation_errors =
                LayerErrors(unit.pipeline, unit.before.canonical_data)
    /\ unit.op = "validate_batch"
          => \A i \in 1..Len(unit.before) :
                get_row(rows, unit.before[i].row_id).validation_errors =
                    LayerErrors(unit.pipeline, unit.before[i].canonical_data)

\* validate_row has returned a row that fails a structural and a semantic
\* rule, and the row carries both violations
C11_Witness ==
    /\ unit.op = "validate_row"
    /\ Len(unit.row.validation_errors) >= 2
    /\ unit.row.validation_errors[1].rule = "required"
    /\ unit.row.validation_errors[Len(unit.row.validation_errors)].rule
          = "status_transition"

\* the formula rules of the pipeline
FormulaRulesOf(pipeline) ==
    {pipeline.cross_validator[i] : i \in
        {j \in 1..Len(pipeline.cross_validator) :
            pipeline.cross_validator[j].rule_type = "formula"}}

\* C12: a formula rule whose expression cannot be evaluated for the row (a
\* referenced field missing or null, a non-numeric operand) yields a
\* violation, and the row validate_row returns is FLAGGED
C12_FormulaErrorIsViolation ==
    unit.op = "validate_row" =>
        \A rule \in FormulaRulesOf(unit.pipeline) :
            Eval(rule.formula, FieldValues(rule, unit.before.canonical_data)).raised
                => /\ unit.row.status = "flagged"
                   /\ \E i \in 1..Len(unit.row.validation_errors) :
                         unit.row.validation_errors[i].rule = "formula"

\* every field the expression names is a field of the rule, present in the
\* data and a number or a numeric string
AllNumeric(rule, canonical_data) ==
    /\ {rule.formula.a, rule.formula.b, rule.formula.c}
          \subseteq {rule.fields[i] : i \in 1..Len(rule.fields)}
    /\ \A i \in 1..Len(rule.fields) :
          /\ rule.fields[i] \in DOMAIN canonical_data
          /\ LET value == canonical_data[rule.fields[i]]
             IN  IsNum(value) \/ (IsStr(value) /\ IsDecimal(strip(value.s)))

\* the number a numeric value stands for
NumberOf(value) ==
    IF IsNum(value) THEN value ELSE ParseDecimal(strip(value.s), 0, 1, FALSE)

\* the expression a * b == c holds of the numbers in the data
ExpressionHolds(formula, canonical_data) ==
    LET a == NumberOf(canonical_data[formula.a])
        b == NumberOf(canonical_data[formula.b])
        c == NumberOf(canonical_data[formula.c])
    IN  a.n * b.n * c.d = c.n * a.d * b.d

\* C13: for a formula rule whose fields are all present and numeric, the row
\* validate_row returns is VALID with no violation when the expression is
\* true, and FLAGGED with exactly one violation, of rule "formula" and naming
\* all the fields of the rule, when it is false
C13_FormulaVerdict ==
    unit.op = "validate_row" =>
        \A rule \in FormulaRulesOf(unit.pipeline) :
            (/\ unit.pipeline = ValidationPipeline(<<>>, <<rule>>, <<>>)
             /\ AllNumeric(rule, unit.before.canonical_data))
                => IF ExpressionHolds(rule.formula, unit.before.canonical_data)
                   THEN /\ unit.row.status = "valid"
                        /\ unit.row.validation_errors = <<>>
                   ELSE /\ unit.row.status = "flagged"
                        /\ Len(unit.row.validation_errors) = 1
                        /\ unit.row.validation_errors[1].rule = "formula"
                        /\ unit.row.validation_errors[1].fields = JoinNames(rule.fields)

\* the row (2, 3.50, 8.00) has been validated against quantity * price ==
\* total and is FLAGGED with one violation on quantity,price,total
C13_Witness ==
    /\ unit.op = "validate_row"
    /\ FormulaRulesOf(unit.pipeline) # {}
    /\ unit.before.canonical_data.quantity = Str(<<"2">>)
    /\ "total" \in DOMAIN unit.before.canonical_data
    /\ unit.before.canonical_data.total = Str(<<"8", ".", "0", "0">>)
    /\ unit.row.status = "flagged"
    /\ Len(unit.row.validation_errors) = 1
    /\ unit.row.validation_errors[1].fields = "quantity,price,total"

\* the duplicate violations among the violations of a row
DuplicateErrors(row) ==
    SelectSeq(row.validation_errors, LAMBDA e : e.rule = "duplicate")

\* the positions before i of the rows with the key of row i
EarlierSameKey(list, key_fields, i) ==
    {j \in 1..(i - 1) :
        generate_dedup_key(list[j], key_fields) = generate_dedup_key(list[i], key_fields)}

\* C14: after mark_duplicates with keep_first, a row that has an earlier row
\* with the same dedup key carries exactly one duplicate violation, which
\* names the list index of the first row with that key; every other row
\* (the first of its group, or alone with its key) carries none
C14_DuplicatesAfterFirstAreMarked ==
    (unit.op = "mark_duplicates" /\ unit.keep_first) =>
        \A i \in 1..Len(unit.before) :
            LET earlier == EarlierSameKey(unit.before, unit.key_fields, i)
            IN  IF earlier = {}
                THEN DuplicateErrors(unit.out[i]) = <<>>
                ELSE /\ Len(DuplicateErrors(unit.out[i])) = 1
                     /\ \E first \in earlier :
                           /\ \A j \in earlier : first <= j
                           /\ DuplicateErrors(unit.out[i])[1].message
                                 = "Duplicate of row " \o ToString(first - 1)

\* three rows, the second and third with the key of the first: both are
\* marked as duplicates of row 0 and the first is not marked
C14_Witness ==
    /\ unit.op = "mark_duplicates"
    /\ unit.keep_first
    /\ Len(unit.out) = 3
    /\ DuplicateErrors(unit.out[1]) = <<>>
    /\ Len(DuplicateErrors(unit.out[2])) = 1
    /\ Len(DuplicateErrors(unit.out[3])) = 1
    /\ DuplicateErrors(unit.out[3])[1].message = "Duplicate of row 0"

\* C15: mark_duplicates only appends: the violations a row had before the
\* call are the first violations it has afterwards, unaltered and in order,
\* what follows them are duplicate violations, and the status, the canonical
\* and raw data and the reviewer field of every row are as before
C15_MarkDuplicatesIsAdditive ==
    unit.op = "mark_duplicates" =>
        /\ Len(unit.out) = Len(unit.before)
        /\ \A i \in 1..Len(unit.before) :
              LET old == unit.before[i]
                  new == unit.out[i]
              IN  /\ Len(new.validation_errors) >= Len(old.validation_errors)
                  /\ SubSeq(new.validation_errors, 1, Len(old.validation_errors))
                        = old.validation_errors
                  /\ \A k \in (Len(old.validation_errors) + 1)..Len(new.validation_errors) :
                        new.validation_errors[k].rule = "duplicate"
                  /\ new.status = old.status
                  /\ new.canonical_data = old.canonical_data
                  /\ new.raw_data = old.raw_data
                  /\ new.approved_by = old.approved_by
                  /\ new.row_id = old.row_id

\* a reviewed, FLAGGED row with a violation of its own was marked as a
\* duplicate, and the kept row has its own violation too
C15_Witness ==
    /\ unit.op = "mark_duplicates"
    /\ Len(unit.out) >= 2
    /\ Len(unit.before[1].validation_errors) = 1
    /\ unit.out[1].validation_errors = unit.before[1].validation_errors
    /\ unit.before[2].approved_by = "ann"
    /\ Len(unit.out[2].validation_errors) = 2
    /\ unit.out[2].validation_errors[2].rule = "duplicate"

\* the data generate_dedup_key reads
KeySource(row) ==
    IF row.canonical_data # EmptyDict THEN row.canonical_data ELSE row.raw_data

\* the value of a key field after lower-casing and trimming; a field that is
\* null or absent has no value
NormalisedValue(row, field) ==
    IF field \in DOMAIN KeySource(row) /\ KeySource(row)[field] # None
    THEN Str(LowerStrip(KeySource(row)[field].s))
    ELSE None

\* C16: two rows get the same dedup key exactly when, for every key field,
\* their values are equal after lower-casing and trimming
C16_SameKeyIffSameValues ==
    unit.op = "generate_dedup_key" =>
        ((unit.key_a = unit.key_b)
            <=> \A i \in 1..Len(unit.key_fields) :
                    NormalisedValue(unit.a, unit.key_fields[i])
                        = NormalisedValue(unit.b, unit.key_fields[i]))

\* the row as it is before any stage has touched it: its raw and normalized
\* data only
Pristine(row) ==
    [Row(row.file_id, row.line_number, row.raw_data)
        EXCEPT !.normalized_data = row.normalized_data]

\* C17: the canonical data, confidence map, violation list and status that
\* map_row followed by validate_row give a row are those that freshly built
\* instances give the same raw and normalized data, whatever rows the
\* instances have processed before and whatever an earlier pass left on the
\* row object
C17_MapValidateIsDeterministic ==
    unit.op = "session" =>
        LET fresh == MapThenValidate(FieldMapper(unit.rules), unit.pipeline,
                                     Pristine(unit.row)).row
        IN  /\ unit.out.canonical_data = fresh.canonical_data
            /\ unit.out.mapping_confidence = fresh.mapping_confidence
            /\ unit.out.validation_errors = fresh.validation_errors
            /\ unit.out.status = fresh.status

\* a row whose Qty a rule matches goes through a mapper that had recorded
\* Qty as unmapped when it processed an earlier row
C17_Witness ==
    /\ unit.op = "session"
    /\ unit.calls = 2
    /\ "Qty" \in unit.mapper.unmapped_fields
    /\ "amount" \in DOMAIN unit.out.canonical_data
    /\ unit.out.status = "valid"

\* the elements of a list, as a set
Range(list) == {list[i] : i \in 1..Len(list)}

\* the last call inserted a record that the store held, with the same
\* identity and the same data
IsReinsert ==
    \/ /\ unit.op = "insert_row"
       /\ get_row(unit.rows_before, unit.record.row_id) = unit.record
    \/ /\ unit.op = "insert_file"
       /\ get_file(unit.files_before, unit.record.file_id) = unit.record

\* C18: after a record is inserted again with the same identity and the
\* same data, the store holds one record for the identity and every query
\* returns what it returned before: get_row, get_file, get_rows_by_file and
\* get_rows_by_status (with and without a limit) the same records in the
\* same order, get_files_by_status (which has no ORDER BY) the same records
C18_ReinsertLeavesStoreAsItWas ==
    IsReinsert =>
        /\ \A r \in StoreRows :
              /\ Cardinality({i \in 1..Len(rows) : rows[i].row_id = r.row_id}) <= 1
              /\ get_row(rows, r.row_id) = get_row(unit.rows_before, r.row_id)
              /\ get_rows_by_file(rows, r.file_id)
                    = get_rows_by_file(unit.rows_before, r.file_id)
        /\ \A f \in StoreFiles :
              /\ Cardinality({i \in 1..Len(files) : files[i].file_id = f.file_id}) <= 1
              /\ get_file(files, f.file_id) = get_file(unit.files_before, f.file_id)
        /\ \A status \in FileStatus :
              Range(get_files_by_status(files, status))
                  = Range(get_files_by_status(unit.files_before, status))
        /\ \A status \in RowStatus, limit \in 0..1 :
              get_rows_by_status(rows, status, limit)
                  = get_rows_by_status(unit.rows_before, status, limit)

\* C19: a step of a process_batch run (ingestion or re-ingestion of a file,
\* normalization and mapping, validation) leaves the approved_by and
\* approved_at of every stored row that has them set as they are
C19_PipelineKeepsReviewerDecision ==
    [][unit' = unit =>
          \A i \in 1..Len(rows) :
              rows[i].approved_by # NoReviewer =>
                  /\ get_row(rows', rows[i].row_id) # NoRow
                  /\ get_row(rows', rows[i].row_id).approved_by = rows[i].approved_by
                  /\ get_row(rows', rows[i].row_id).approved_at = rows[i].approved_at]_vars

\* C20: after approve_rows / reject_rows for stored rows, each of the rows
\* has approved_by set to the reviewer and approved_at set in the store, and
\* its status and validation_errors are what they were
C20_DecisionIsRecorded ==
    unit.op \in {"approve_rows", "reject_rows"} =>
        \A k \in 1..Len(unit.row_ids) :
            LET old == get_row(unit.rows_before, unit.row_ids[k])
                new == get_row(rows, unit.row_ids[k])
            IN  /\ ~ unit.raised
                /\ new.approved_by = unit.reviewer_id
                /\ new.approved_at # NoTime
                /\ new.status = old.status
                /\ new.validation_errors = old.validation_errors

RECURSIVE Flatten(_)
\* the decoded rows of all chunks, in decode order
Flatten(chunks) == IF chunks = <<>> THEN <<>> ELSE Head(chunks) \o Flatten(Tail(chunks))

\* C21: the rows stored for a file carry the line numbers 1..k without gap
\* or repeat, the row numbered n holding the n-th decoded row of the bytes
\* across chunk boundaries; row_id is generate_row_id(file_id, line_number),
\* and two stored rows with the same row_id are the same (file, position),
\* in every run and re-run over the same bytes
C21_RowsNumberedInDecodeOrder ==
    /\ \A i \in 1..Len(rows) :
          /\ rows[i].row_id = generate_row_id(rows[i].file_id, rows[i].line_number)
          /\ rows[i].line_number \in 1..Len(Flatten(Decode(rows[i].file_id).chunks))
          /\ rows[i].raw_data = Flatten(Decode(rows[i].file_id).chunks)[rows[i].line_number]
          /\ \A n \in 1..rows[i].line_number :
                \E j \in 1..Len(rows) :
                    rows[j].file_id = rows[i].file_id /\ rows[j].line_number = n
    /\ \A i, j \in 1..Len(rows) :
          /\ rows[i].row_id = rows[j].row_id
                => rows[i].file_id = rows[j].file_id
                   /\ rows[i].line_number = rows[j].line_number
          /\ (rows[i].file_id = rows[j].file_id
                /\ rows[i].line_number = rows[j].line_number) => i = j

\* a second process_batch run parses the bytes h1, and the row of the
\* second chunk, numbered 3, is stored beside rows 1 and 2
C21_Witness ==
    /\ runs = 2
    /\ cur.gen = "parse"
    /\ cur.meta.file_id = "h1"
    /\ cur.line_number = 3
    /\ RowIds(rows, "h1") = {"h1_1", "h1_2", "h1_3"}

\* the field is absent from the data, null, or a blank string
IsMissingOrBlank(canonical_data, field) ==
    \/ field \notin DOMAIN canonical_data
    \/ canonical_data[field] = None
    \/ (IsStr(canonical_data[field]) /\ strip(canonical_data[field].s) = <<>>)

\* the violations the list holds for the rule
ViolationsOf(errors, rule) ==
    {k \in 1..Len(errors) :
        /\ "field" \in DOMAIN errors[k]
        /\ errors[k].field = rule.field
        /\ errors[k].rule = rule.rule_type}

\* C22: the row validate_row returns carries a violation of a "required"
\* rule exactly when the rule's field is absent from the canonical data, is
\* null or is a blank string
C22_RequiredEnforcesPresence ==
    unit.op = "validate_row" =>
        \A k \in 1..Len(unit.pipeline.row_validator) :
            LET rule == unit.pipeline.row_validator[k]
            IN  (rule.kind = "ValidationRule" /\ rule.rule_type = "required") =>
                    ((ViolationsOf(unit.row.validation_errors, rule) # {})
                        <=> IsMissingOrBlank(unit.before.canonical_data, rule.field))

\* C27: the row validate_row returns carries no violation of a structural
\* rule other than "required" when the rule's field is absent from the
\* canonical data or null
C27_MissingFieldIsSkipped ==
    unit.op = "validate_row" =>
        \A k \in 1..Len(unit.pipeline.row_validator) :
            LET rule == unit.pipeline.row_validator[k]
            IN  (/\ rule.kind = "ValidationRule"
                 /\ rule.rule_type # "required"
                 /\ DictGet(unit.before.canonical_data, rule.field) = None)
                    => ViolationsOf(unit.row.validation_errors, rule) = {}

\* C23: when a rule without the fallback flag and a fallback rule with a
\* higher priority number both match a row and target the same canonical
\* field, the canonical field holds the value and the confidence the first
\* rule wrote: the fallback rule does not write it
C23_FallbackOnlyWhenNothingMatched ==
    unit.op = "map_row" =>
        \A i, j \in 1..Len(unit.rules) :
            LET a == unit.rules[i]
                b == unit.rules[j]
                source_data == SourceData(unit.row)
            IN  (/\ Len(unit.rules) = 2
                 /\ a.canonical_field = b.canonical_field
                 /\ ~ a.fallback
                 /\ b.fallback
                 /\ a.priority < b.priority
                 /\ Matched(a, source_data)
                 /\ Matched(b, source_data))
                => /\ unit.out.mapped[a.canonical_field] = source_data[a.vendor_field]
                   /\ unit.out.confidence[a.canonical_field] = a.confidence

\* C24: when a process_batch run has returned, the batches table holds one
\* summary row for it, with the status and the row totals of its BatchResult
C24_BatchResultIsPersisted ==
    pc = "done" =>
        /\ Len(batches) = 1
        /\ batches[1].status = result.status
        /\ batches[1].total_rows = result.total_rows

\* the stored row holds the normalized and canonical data the normalization
\* stage of the current run computes for its raw data
StageOneStored(row) ==
    /\ row.normalized_data = normalize_row(row.raw_data)
    /\ row.canonical_data = map_row(load_vendor_mapping_rules(cfgName), row).mapped
    /\ row.mapping_confidence
          = map_row(load_vendor_mapping_rules(cfgName), row).confidence

\* the stored row holds the verdict the validation stage of the current run
\* computes for its canonical data
StageTwoStored(row) ==
    LET pipeline == ValidationPipeline(
                        RuleSetIter(load_vendor_validation_rules(cfgName)), <<>>, <<>>)
    IN  /\ row.status \in {"valid", "flagged"}
        /\ row = validate_row(pipeline, row).row

\* C25: when the run is about to validate a file, every row the store holds
\* for the file has its normalized and mapped data stored; when it is about
\* to export the file, every such row has, besides, its verdict stored
C25_StagesReadWhatWasStored ==
    /\ pc = "validate" =>
          \A i \in 1..Len(rows) :
              rows[i].file_id = cur.meta.file_id => StageOneStored(rows[i])
    /\ pc = "export" =>
          \A i \in 1..Len(rows) :
              rows[i].file_id = cur.meta.file_id
                  => StageOneStored(rows[i]) /\ StageTwoStored(rows[i])

\* the run is about to export a file of three rows, of which validation has
\* stored one as FLAGGED
C25_Witness ==
    /\ pc = "export"
    /\ Cardinality(RowIds(rows, cur.meta.file_id)) = 3
    /\ \E i \in 1..Len(rows) :
          rows[i].file_id = cur.meta.file_id /\ rows[i].status = "flagged"

\* C26: a row that a step of the run adds to the store is PENDING and has no
\* violation; a step other than validation leaves the status, the violation
\* list and the raw data of every stored row as they were, so that a row
\* becomes VALID or FLAGGED in the validation step only
C26_OnlyValidationSetsStatus ==
    [][\A i \in 1..Len(rows') :
          LET new == rows'[i]
              old == get_row(rows, new.row_id)
          IN  /\ old = NoRow
                    => new.status = "pending" /\ new.validation_errors = <<>>
              /\ (old # NoRow /\ pc # "validate")
                    => /\ new.status = old.status
                       /\ new.validation_errors = old.validation_errors
                       /\ new.raw_data = old.raw_data]_vars

\* rows that an earlier pass had validated, one of them FLAGGED, have gone
\* through normalization and mapping again and are about to be validated
C26_Witness ==
    /\ pc = "validate"
    /\ cur.gen = "cached"
    /\ \E i \in 1..Len(rows) :
          /\ rows[i].file_id = cur.meta.file_id
          /\ rows[i].status = "flagged"
          /\ rows[i].validation_errors # <<>>

\* C28: in a run whose vendor configuration holds cross-field or semantic
\* rules, validation of a file does not fail with an exception, and a file
\* that validation has passed has every row validated against the three
\* layers
C28_ConfiguredLayersAreApplied ==
    LET rule_set == load_vendor_validation_rules(cfgName)
    IN  (rule_set.cross_field_rules # <<>> \/ rule_set.semantic_rules # <<>>) =>
            /\ ~ (/\ hist.failure # <<>>
                  /\ hist.failure[2] = "validate"
                  /\ ~ hist.failure[3])
            /\ pc = "export" =>
                  \A i \in 1..Len(rows) :
                      rows[i].file_id = cur.meta.file_id
                          => rows[i].status \in {"valid", "flagged"}

\* C29: in the list suggest_mapping returns, a candidate that is not a
\* case-insensitive exact match has a score below the exact-match score and
\* stands after every exact match, and a candidate scored by character
\* overlap has a score no greater than the substring score and stands after
\* every substring candidate
C29_ExactThenSubstringThenOverlap ==
    unit.op = "suggest_mapping" =>
        \A i \in 1..Len(unit.out) :
            /\ unit.out[i].by # "exact"
                  => /\ ScoreGreater([n |-> 99, d |-> 100], unit.out[i].score)
                     /\ \A j \in 1..Len(unit.out) : unit.out[j].by = "exact" => j < i
            /\ unit.out[i].by = "overlap"
                  => /\ ~ ScoreGreater(unit.out[i].score, [n |-> 7, d |-> 10])
                     /\ \A j \in 1..Len(unit.out) :
                            unit.out[j].by = "substring" => j < i

\* C30: a FileRecord stored with status SUCCESS has a row_count equal to
\* the number of rows the store holds for the file, and once the run has
\* validated the file, valid_rows and flagged_rows equal to the numbers of
\* its stored rows that are VALID and FLAGGED
C30_FileCountsMatchRows ==
    \A k \in 1..Len(files) :
        files[k].status = "success" =>
            LET stored == get_rows_by_file(rows, files[k].file_id)
            IN  /\ files[k].row_count = Len(stored)
                /\ (pc = "export" /\ cur.meta.file_id = files[k].file_id)
                      => /\ files[k].valid_rows = CountStatus(stored, "valid")
                         /\ files[k].flagged_rows = CountStatus(stored, "flagged")

====
